---- MODULE Spec2Model ----
(***************************************************************************)
(* Model of the interviewer app's resilient API-call pipeline:             *)
(*   error_handlers.safe_api_call   (retry loop, error classification)     *)
(*   interview.get_ai_response      (the caller that surfaces the outcome) *)
(*   error_handlers.display_error, update_token_usage,                     *)
(*   check_rate_limits_before_api_call, app_logger.AppLogger.log_error,    *)
(*   log_api_call and the log_api decorator,                               *)
(* of validators.APIResponseValidator and interview.evaluate_answer        *)
(* (ParseSpec), of validators.SessionStateValidator (GuardSpec), of the    *)
(* page script of interview.py, one run per user event (SessionSpec), of   *)
(* validators.ConfigValidator.validate_user_settings (SettingsSpec) and of *)
(* repeated calls of update_token_usage (UsageSpec).                       *)
(*                                                                         *)
(* Text is modelled as a sequence of tokens, so that an f-string is a      *)
(* concatenation, "x in s" is a contiguous-subsequence test and strip()    *)
(* removes leading and trailing whitespace tokens.  Money is counted in    *)
(* units of 10^-5 dollar so that the cost arithmetic stays integral.       *)
(* The debug-mode copies of the last request/response are left out.        *)
(***************************************************************************)
EXTENDS Integers, Sequences, FiniteSets, TLC

VARIABLES
    pc,              \* position of get_ai_response: "start", "loop", "returned", "done"
    func,            \* the callable handed to safe_api_call
    operation,       \* what func does on its 1st, 2nd, ... invocation
    attempt,         \* loop variable of safe_api_call (0-based)
    trace,           \* history of the call: invocations of func and sleeps, in order
    outcome,         \* what safe_api_call gave back to its caller
    app_log,         \* records handed to the logging collaborator
    displayed,       \* what Streamlit has shown to the user (st.error / st.warning)
    throttle_sleeps, \* sleeps made by the rate-limit pre-check
    token_usage,     \* st.session_state.token_usage
    result,          \* return value of get_ai_response
    logged_calls,    \* the logs directory: readable or not, API calls in the window
    rate_status      \* what check_rate_limits returned to the pre-check

vars == <<pc, func, operation, attempt, trace, outcome, app_log, displayed,
          throttle_sleeps, token_usage, result,
          logged_calls, rate_status>>

VARIABLES
    session_state,      \* st.session_state: the fields the validators read
    session_validation, \* the report of the last validate_session_state()
    repair_result,      \* the report of the last repair_session_state()
    notice,             \* what the last run of the page showed with st.warning
    remote_calls,       \* the remote calls issued by the last run of the page
    turns,              \* the answers processed into a turn since Start Practice
    last_question       \* the question the last run of the page had evaluated

stateVars == <<session_state, session_validation, repair_result, notice,
               remote_calls, turns, last_question>>

VARIABLES
    api_response,      \* the response object handed to validate_openai_response
    expected_type,     \* its expected_type argument
    validation_result, \* the dictionary validate_openai_response returns
    evaluation         \* the (scores, feedback) pair evaluate_answer returns

parseVars == <<api_response, expected_type, validation_result, evaluation>>

VARIABLES
    api_key_configured,  \* os.getenv("OPENAI_API_KEY") is a non-empty string
    user_settings,       \* the settings handed to validate_user_settings
    settings_validation, \* the dictionary validate_user_settings returns
    recorded             \* the usages update_token_usage has been called with

configVars == <<api_key_configured, user_settings, settings_validation>>

\* the state of the one remote call, apart from pc
callVars == <<func, operation, attempt, trace, outcome, app_log, displayed,
              throttle_sleeps, token_usage, result,
              logged_calls, rate_status>>

\* what a remote call leaves alone
otherVars == <<parseVars, stateVars, configVars, recorded>>

allVars == <<vars, parseVars, stateVars, configVars, recorded>>

----------------------------------------------------------------------------
(* Program constants *)

max_retries == 3

retry_delay == 1

warning_threshold == 150

RateLimitPause == 2

ApproachingLimitPause == 1

PromptPrice == 1

CompletionPrice == 3

(* Bounds of the model *)

MaxTokens == 1

----------------------------------------------------------------------------
(* Text helpers *)

Whitespace == {" ", "\n"}

\* needle in hay, for token sequences (Python's substring test)
Contains(needle, hay) ==
    \E i \in 1..(Len(hay) - Len(needle) + 1) :
        SubSeq(hay, i, i + Len(needle) - 1) = needle

RECURSIVE LStrip(_)
LStrip(s) ==
    IF s # <<>> /\ Head(s) \in Whitespace THEN LStrip(Tail(s)) ELSE s

RECURSIVE RStrip(_)
RStrip(s) ==
    IF s # <<>> /\ s[Len(s)] \in Whitespace
    THEN RStrip(SubSeq(s, 1, Len(s) - 1))
    ELSE s

\* str.strip()
Strip(s) == RStrip(LStrip(s))

----------------------------------------------------------------------------
(* The remote operation and what it can do on one invocation *)

\* type(e).__name__ of the exceptions the client raises, as tokens
ExceptionTypeNames ==
    { <<"RateLimit", "Error">>,
      <<"Authentication", "Error">>,
      <<"API", "Timeout", "Error">>,
      <<"API", "Connection", "Error">> }

\* str(e)
ExceptionMessages == {"quota exhausted for org-1", "connection reset by peer"}

Exceptions ==
    [type_name : ExceptionTypeNames, message : ExceptionMessages]

\* response.usage; the backend reports total = prompt + completion
Usages ==
    { [prompt_tokens |-> p, completion_tokens |-> c, total_tokens |-> p + c] :
        p \in 0..MaxTokens, c \in 0..MaxTokens }

\* response.choices[0].message.content is Optional[str]
Contents == { <<"Next question?">>, <<" ", "Next question?", "\n">> }

Responses ==
    [content : Contents, content_is_none : {FALSE}, usage : Usages]
      \cup [content : {<<>>}, content_is_none : {TRUE}, usage : Usages]

NoResponse ==
    [content |-> <<>>, content_is_none |-> TRUE,
     usage |-> [prompt_tokens |-> 0, completion_tokens |-> 0, total_tokens |-> 0]]

NoException == [type_name |-> <<>>, message |-> ""]

----------------------------------------------------------------------------
(* safe_api_call: classification of a raised exception *)

RateLimitName == <<"RateLimit", "Error">>

AuthenticationName == <<"Authentication", "Error">>

TimeoutName == <<"Timeout">>

\* the if / elif chain over type(e).__name__
ErrorKind(error_type) ==
    IF Contains(RateLimitName, error_type) THEN "RateLimited"
    ELSE IF Contains(AuthenticationName, error_type) THEN "AuthFailed"
    ELSE IF Contains(TimeoutName, error_type) THEN "TimedOut"
    ELSE "Other"

\* variant: the retry guard never stops the loop
HasAttemptsLeft_Always(a) == TRUE

\* variant: the retry guard is off by one
HasAttemptsLeft_OffByOne(a) == a <= max_retries - 1

\* attempt < max_retries - 1
HasAttemptsLeft(a) == a < max_retries - 1

\* variant: no backoff, the delay stays retry_delay
RateLimitDelay_Fixed(a) == retry_delay

\* variant: the delay doubles per earlier rate-limit failure, not per attempt
RateLimitDelay_PerRateLimit(a) ==
    retry_delay * (2 ^ Len(SelectSeq(trace, LAMBDA x : x.kind = "RateLimited")))

\* retry_delay * (2 ** attempt)
RateLimitDelay(a) == retry_delay * (2 ^ a)

\* variant: timeouts back off exponentially too
TimeoutDelay_Exponential(a) == retry_delay * (2 ^ a)

\* retry_delay
TimeoutDelay(a) == retry_delay

RateLimitText == <<"Rate limit exceeded. Please try again later.">>

AuthenticationText == <<"API authentication failed. Please check your API key.">>

TimeoutText == <<"Request timed out. Please try again.">>

MaxRetriesText == <<"Maximum retry attempts reached.">>

\* f"An error occurred: {error_msg}"
OtherErrorText(error_msg) == <<"An error occurred: ", error_msg>>

Continue(delay) == [act |-> "continue", sleep |-> <<delay>>, error |-> <<>>]

Return(text) == [act |-> "return", sleep |-> <<>>, error |-> text]

Raise == [act |-> "raise", sleep |-> <<>>, error |-> <<>>]

OnRateLimit(e, a) ==
    IF HasAttemptsLeft(a) THEN Continue(RateLimitDelay(a)) ELSE Return(RateLimitText)

\* variant: an authentication failure is retried
OnAuthentication_Retry(e, a) ==
    IF HasAttemptsLeft(a) THEN Continue(retry_delay) ELSE Return(AuthenticationText)

OnAuthentication(e, a) == Return(AuthenticationText)

OnTimeout(e, a) ==
    IF HasAttemptsLeft(a) THEN Continue(TimeoutDelay(a)) ELSE Return(TimeoutText)

\* variant: an unclassified failure is retried
OnOther_Retry(e, a) ==
    IF HasAttemptsLeft(a) THEN Continue(retry_delay)
    ELSE Return(OtherErrorText(e.message))

\* variant: an unclassified failure is re-raised
OnOther_Reraise(e, a) == Raise

OnOther(e, a) == Return(OtherErrorText(e.message))

\* the body of "except Exception as e" after the error has been logged
OnException(e, a) ==
    LET kind == ErrorKind(e.type_name) IN
    IF kind = "RateLimited" THEN OnRateLimit(e, a)
    ELSE IF kind = "AuthFailed" THEN OnAuthentication(e, a)
    ELSE IF kind = "TimedOut" THEN OnTimeout(e, a)
    ELSE OnOther(e, a)

----------------------------------------------------------------------------
(* The logging collaborator *)

\* func.__name__ if hasattr(func, "__name__") else "unknown_function"
FunctionName(f) == IF f.has_name THEN f.name ELSE "unknown_function"

\* variant: the 0-based loop variable is logged as the attempt number
LogError_ZeroBased(error, function, attempt_no, shown) ==
    [category |-> "Application Error", error |-> error, function |-> function,
     attempt |-> attempt_no - 1, displayed_to_user |-> shown, success |-> FALSE]

\* AppLogger.log_error(error, context): one "Application Error" record
LogError(error, function, attempt_no, shown) ==
    [category |-> "Application Error", error |-> error, function |-> function,
     attempt |-> attempt_no, displayed_to_user |-> shown, success |-> FALSE]

\* AppLogger.log_api_call(func_name, params, response): one "API Call" record
LogApiCall(function) ==
    [category |-> "API Call", error |-> <<>>, function |-> function,
     attempt |-> 0, displayed_to_user |-> FALSE, success |-> TRUE]

\* variant: the warning starts at the threshold itself
CheckRateLimits_AtThreshold(readable, recent_calls) ==
    IF ~readable THEN "error"
    ELSE IF recent_calls >= warning_threshold THEN "warning"
    ELSE "ok"

\* AppLogger.check_rate_limits: status from the calls counted in the window
CheckRateLimits(readable, recent_calls) ==
    IF ~readable THEN "error"
    ELSE IF recent_calls > warning_threshold THEN "warning"
    ELSE "ok"

\* check_rate_limits has not been called yet
NotChecked == [status |-> "unchecked"]

\* the dictionary check_rate_limits returns: without "calls" when reading
\* the logs raised
RateStatus(readable, recent_calls) ==
    IF ~readable THEN [status |-> "error"]
    ELSE [status |-> CheckRateLimits(readable, recent_calls), calls |-> recent_calls]

RecentCallCounts == {0, warning_threshold, warning_threshold + 1}

\* the logs directory as check_rate_limits may find it
LoggedCalls == [readable : BOOLEAN, recent_calls : RecentCallCounts]

----------------------------------------------------------------------------
(* Trace of a call *)

\* the n-th invocation of func raised e
InvokedRaised(n, e) ==
    [ev |-> "invoke", n |-> n, kind |-> ErrorKind(e.type_name),
     message |-> e.message, response |-> NoResponse]

\* the n-th invocation of func returned r
InvokedReturned(n, r) ==
    [ev |-> "invoke", n |-> n, kind |-> "Success", message |-> "", response |-> r]

\* time.sleep(delay)
Slept(delay) ==
    [ev |-> "sleep", n |-> delay, kind |-> "-", message |-> "", response |-> NoResponse]

Invocations == SelectSeq(trace, LAMBDA x : x.ev = "invoke")

Sleeps == SelectSeq(trace, LAMBDA x : x.ev = "sleep")

NoOutcome ==
    [tag |-> "none", error |-> <<>>, response |-> NoResponse, exception |-> ""]

Success(r) == [tag |-> "ok", error |-> <<>>, response |-> r, exception |-> ""]

\* {"error": text}
ErrorValue(text) ==
    [tag |-> "error", error |-> text, response |-> NoResponse, exception |-> ""]

\* an exception leaving safe_api_call
Propagated(e) ==
    [tag |-> "raised", error |-> <<>>, response |-> NoResponse,
     exception |-> e.message]

ZeroUsage ==
    [prompt_tokens |-> 0, completion_tokens |-> 0, total_tokens |-> 0,
     estimated_cost |-> 0]

----------------------------------------------------------------------------
(* Initial state: get_ai_response has been called and is about to run *)

Kinds == {"RateLimited", "AuthFailed", "TimedOut", "Other"}

\* no response is being validated
ConfigIdle ==
    /\ api_key_configured = TRUE
    /\ user_settings = "-"
    /\ settings_validation = "-"
    /\ recorded = <<>>

ParseIdle ==
    /\ api_response = "-"
    /\ expected_type = "-"
    /\ validation_result = "-"
    /\ evaluation = "-"

\* st.session_state when the page is opened: interview.py has created
\* messages and token_usage, nothing else
OpenedSession ==
    [present |-> {"messages", "token_usage"},
     messages |-> [is_list |-> TRUE, items |-> <<>>],
     interview_started |-> FALSE,
     job_role |-> <<>>,
     query_count |-> [type |-> "absent", value |-> 0],
     token_usage |->
        [is_dict |-> TRUE,
         counters |-> [prompt_tokens |-> [type |-> "int", value |-> 0],
                       completion_tokens |-> [type |-> "int", value |-> 0],
                       total_tokens |-> [type |-> "int", value |-> 0],
                       estimated_cost |-> [type |-> "float", value |-> 0]]]]

\* no page run has happened
StateIdle ==
    /\ session_state = OpenedSession
    /\ session_validation = [is_valid |-> TRUE, errors |-> <<>>, warnings |-> <<>>,
                             missing_fields |-> <<>>, corrupted_fields |-> <<>>]
    /\ repair_result = [repaired |-> FALSE, actions_taken |-> <<>>]
    /\ notice = <<>>
    /\ remote_calls = <<>>
    /\ turns = 0
    /\ last_question = <<>>

Init ==
    /\ ParseIdle
    /\ StateIdle
    /\ ConfigIdle
    /\ pc = "start"
    /\ func = [has_name |-> TRUE, name |-> "<lambda>"]
    /\ operation \in [1..max_retries -> Kinds \cup {"Success"}]
    /\ attempt = 0
    /\ trace = <<>>
    /\ outcome = NoOutcome
    /\ app_log = <<>>
    /\ displayed = <<>>
    /\ throttle_sleeps = <<>>
    /\ token_usage = ZeroUsage
    /\ result = <<>>
    /\ logged_calls \in LoggedCalls
    /\ rate_status = NotChecked

----------------------------------------------------------------------------
(* get_ai_response, before the remote call *)

\* st.warning(f"... {rate_status.get('message')}. API calls may be throttled.")
RateWarning(recent_calls) ==
    [level |-> "warning",
     text |-> <<"High API usage detected: ", ToString(recent_calls),
                " calls in the last 1 minute(s)", ". API calls may be throttled.">>]

\* check_rate_limits_before_api_call and the extra pause of get_ai_response;
\* whatever the status, control reaches safe_api_call
RateLimitPreCheck ==
    /\ pc = "start"
    /\ rate_status' = RateStatus(logged_calls.readable, logged_calls.recent_calls)
    /\ IF rate_status'.status = "warning"
       THEN /\ displayed' = Append(displayed, RateWarning(logged_calls.recent_calls))
            /\ throttle_sleeps' = <<RateLimitPause, ApproachingLimitPause>>
       ELSE UNCHANGED <<displayed, throttle_sleeps>>
    /\ pc' = "loop"
    /\ UNCHANGED logged_calls
    /\ UNCHANGED <<func, operation, attempt, trace, outcome, app_log,
                   token_usage, result>>
    /\ UNCHANGED otherVars

----------------------------------------------------------------------------
(* safe_api_call: one iteration of "for attempt in range(max_retries)" *)

\* after "continue": the next iteration, or the statement after the loop
NextIteration ==
    IF attempt + 1 < max_retries
    THEN /\ attempt' = attempt + 1
         /\ pc' = "loop"
         /\ UNCHANGED outcome
    ELSE /\ outcome' = ErrorValue(MaxRetriesText)
         /\ pc' = "returned"
         /\ UNCHANGED attempt

\* func raised e: log it, then act on its kind
Failed(e) ==
    LET d == OnException(e, attempt) IN
    /\ app_log' = Append(app_log,
                     LogError(<<e.message>>, FunctionName(func), attempt + 1, FALSE))
    /\ trace' = Append(trace, InvokedRaised(attempt + 1, e))
                   \o [i \in 1..Len(d.sleep) |-> Slept(d.sleep[i])]
    /\ IF d.act = "continue" THEN NextIteration
       ELSE /\ outcome' = IF d.act = "return" THEN ErrorValue(d.error)
                                               ELSE Propagated(e)
            /\ pc' = "returned"
            /\ UNCHANGED attempt
    /\ UNCHANGED <<func, operation, displayed, throttle_sleeps, token_usage, result,
                   logged_calls, rate_status>>
    /\ UNCHANGED otherVars

\* what the operation does on this invocation
Raises(e) == operation[attempt + 1] = ErrorKind(e.type_name)

AttemptSucceeds ==
    /\ pc = "loop"
    /\ operation[attempt + 1] = "Success"
    /\ \E r \in Responses :
          /\ outcome' = Success(r)
          /\ trace' = Append(trace, InvokedReturned(attempt + 1, r))
    /\ pc' = "returned"
    /\ UNCHANGED <<logged_calls, rate_status>>
    /\ UNCHANGED <<func, operation, attempt, app_log, displayed, throttle_sleeps,
                   token_usage, result>>
    /\ UNCHANGED otherVars

AttemptRateLimited ==
    /\ pc = "loop"
    /\ \E e \in Exceptions :
          ErrorKind(e.type_name) = "RateLimited" /\ Raises(e) /\ Failed(e)

AttemptAuthFailed ==
    /\ pc = "loop"
    /\ \E e \in Exceptions :
          ErrorKind(e.type_name) = "AuthFailed" /\ Raises(e) /\ Failed(e)

AttemptTimedOut ==
    /\ pc = "loop"
    /\ \E e \in Exceptions :
          ErrorKind(e.type_name) = "TimedOut" /\ Raises(e) /\ Failed(e)

AttemptOtherError ==
    /\ pc = "loop"
    /\ \E e \in Exceptions :
          ErrorKind(e.type_name) = "Other" /\ Raises(e) /\ Failed(e)

----------------------------------------------------------------------------
(* get_ai_response, after safe_api_call *)

\* display_error(error_message, "error", app_logger)
ErrorBanner(error_message) ==
    [level |-> "error", text |-> <<"[confused face] ">> \o error_message]

ApologyText == <<"I apologize, but I encountered an issue. Please try again.">>

NoneStripMessage == "'NoneType' object has no attribute 'strip'"

\* f"Error: {str(e)}"
CaughtText(message) == <<"Error: ", message>>

\* variant: negative usage values are clamped to zero before they are added
UpdateTokenUsage_Clamped(tu, usage) ==
    LET clamp(n) == IF n < 0 THEN 0 ELSE n
    IN  [prompt_tokens |-> tu.prompt_tokens + clamp(usage.prompt_tokens),
         completion_tokens |-> tu.completion_tokens + clamp(usage.completion_tokens),
         total_tokens |-> tu.total_tokens + clamp(usage.total_tokens),
         estimated_cost |-> tu.estimated_cost
                              + clamp(usage.prompt_tokens) * PromptPrice
                              + clamp(usage.completion_tokens) * CompletionPrice]

\* update_token_usage(usage)
UpdateTokenUsage(tu, usage) ==
    [prompt_tokens |-> tu.prompt_tokens + usage.prompt_tokens,
     completion_tokens |-> tu.completion_tokens + usage.completion_tokens,
     total_tokens |-> tu.total_tokens + usage.total_tokens,
     estimated_cost |-> tu.estimated_cost
                          + usage.prompt_tokens * PromptPrice
                          + usage.completion_tokens * CompletionPrice]

\* the response is an error dictionary: show it, return the apology
SurfaceError ==
    /\ pc = "returned"
    /\ outcome.tag = "error"
    /\ displayed' = Append(displayed, ErrorBanner(outcome.error))
    /\ app_log' = app_log \o << LogError(outcome.error, "-", 0, TRUE),
                                LogApiCall("get_ai_response") >>
    /\ result' = ApologyText
    /\ pc' = "done"
    /\ UNCHANGED <<logged_calls, rate_status>>
    /\ UNCHANGED <<func, operation, attempt, trace, outcome, throttle_sleeps,
                   token_usage>>
    /\ UNCHANGED otherVars

\* the response is a completion: count its usage, return its stripped text
ReturnContent ==
    /\ pc = "returned"
    /\ outcome.tag = "ok"
    /\ token_usage' = UpdateTokenUsage(token_usage, outcome.response.usage)
    /\ IF outcome.response.content_is_none
       THEN /\ result' = CaughtText(NoneStripMessage)
            /\ app_log' = app_log \o
                   << LogError(<<NoneStripMessage>>, "get_ai_response", 0, FALSE),
                      LogApiCall("get_ai_response") >>
       ELSE /\ result' = Strip(outcome.response.content)
            /\ app_log' = Append(app_log, LogApiCall("get_ai_response"))
    /\ pc' = "done"
    /\ UNCHANGED <<logged_calls, rate_status>>
    /\ UNCHANGED <<func, operation, attempt, trace, outcome, displayed,
                   throttle_sleeps>>
    /\ UNCHANGED otherVars

\* "except Exception as e" of get_ai_response around safe_api_call
CatchPropagated ==
    /\ pc = "returned"
    /\ outcome.tag = "raised"
    /\ result' = CaughtText(outcome.exception)
    /\ app_log' = app_log \o
           << LogError(<<outcome.exception>>, "get_ai_response", 0, FALSE),
              LogApiCall("get_ai_response") >>
    /\ pc' = "done"
    /\ UNCHANGED <<logged_calls, rate_status>>
    /\ UNCHANGED <<func, operation, attempt, trace, outcome, displayed,
                   throttle_sleeps, token_usage>>
    /\ UNCHANGED otherVars

GetAiResponseReturn ==
    IF outcome.tag = "error" THEN SurfaceError
    ELSE IF outcome.tag = "ok" THEN ReturnContent
    ELSE CatchPropagated

----------------------------------------------------------------------------

Next ==
    \/ RateLimitPreCheck
    \/ AttemptSucceeds
    \/ AttemptRateLimited
    \/ AttemptAuthFailed
    \/ AttemptTimedOut
    \/ AttemptOtherError
    \/ GetAiResponseReturn

Spec == Init /\ [][Next]_vars

\* the call is synchronous: the running step always completes
FairSpec == Spec /\ WF_vars(Next)

----------------------------------------------------------------------------
(* Vocabulary of the properties *)

\* safe_api_call has given control back to get_ai_response
Returned == pc \in {"returned", "done"}

NumInvocations == Len(Invocations)

SleepDelays == [i \in 1..Len(Sleeps) |-> Sleeps[i].n]

\* the attempt reports of safe_api_call in the log
AttemptReports == SelectSeq(app_log, LAMBDA x : x.attempt # 0)

FailedInvocations == SelectSeq(Invocations, LAMBDA x : x.kind # "Success")

\* trace[i] is the last thing safe_api_call did, and it has returned
IsFinal(i) == i = Len(trace) /\ Returned

\* trace[i], a failed attempt, is followed by a sleep of delay and a retry
RetriedAfter(i, delay) ==
    /\ Len(trace) >= i + 1
    /\ trace[i + 1] = Slept(delay)
    /\ IF Len(trace) = i + 1
       THEN pc = "loop" /\ attempt = trace[i].n
       ELSE trace[i + 2].ev = "invoke" /\ trace[i + 2].n = trace[i].n + 1

----------------------------------------------------------------------------
(* C1: rate-limit on attempts 1 and 2, success on attempt 3: the call      *)
(* returns the success value after exactly 3 invocations and exactly two   *)
(* sleeps, retry_delay*1 then retry_delay*2, in that order.                *)

C1_RateLimitTwiceThenSuccess ==
    (Returned /\ operation = <<"RateLimited", "RateLimited", "Success">>) =>
        /\ NumInvocations = 3
        /\ SleepDelays = <<retry_delay * 1, retry_delay * 2>>
        /\ [i \in 1..Len(trace) |-> trace[i].ev]
              = <<"invoke", "sleep", "invoke", "sleep", "invoke">>
        /\ outcome = Success(trace[Len(trace)].response)
        /\ trace[Len(trace)].response \in Responses

C1_Witness ==
    /\ pc = "done"
    /\ operation = <<"RateLimited", "RateLimited", "Success">>
    /\ outcome.tag = "ok"
    /\ Len(Sleeps) = 2

(* C2: an authentication failure on any attempt ends the call right after  *)
(* that attempt with the authentication error: no sleep, no further        *)
(* invocation; an operation that always fails so is invoked exactly once.  *)

C2_AuthNotRetried ==
    /\ \A i \in 1..Len(trace) :
          (trace[i].ev = "invoke" /\ trace[i].kind = "AuthFailed") =>
              IsFinal(i) /\ outcome = ErrorValue(AuthenticationText)
    /\ (Returned /\ operation[1] = "AuthFailed") =>
          NumInvocations = 1 /\ Len(Sleeps) = 0

C2_Witness ==
    /\ pc = "done"
    /\ operation[2] = "AuthFailed"
    /\ NumInvocations = 2
    /\ outcome = ErrorValue(AuthenticationText)

(* C3: a rate-limit failure on attempt k < max_retries is followed by a    *)
(* sleep of retry_delay * 2^(k-1) and a retry, whatever failed before; on  *)
(* the last attempt it returns the rate-limit error with no sleep.         *)

C3_RateLimitBackoff ==
    \A i \in 1..Len(trace) :
        (trace[i].ev = "invoke" /\ trace[i].kind = "RateLimited") =>
            IF trace[i].n < max_retries
            THEN RetriedAfter(i, retry_delay * (2 ^ (trace[i].n - 1)))
            ELSE IsFinal(i) /\ outcome = ErrorValue(RateLimitText)

C3_Witness ==
    /\ pc = "done"
    /\ operation = <<"TimedOut", "RateLimited", "RateLimited">>
    /\ SleepDelays = <<retry_delay, 2 * retry_delay>>
    /\ outcome = ErrorValue(RateLimitText)

(* C4: a timeout with attempts remaining is followed by a sleep of exactly *)
(* retry_delay and a retry; an operation that always times out is invoked  *)
(* max_retries times with two sleeps of retry_delay and the call returns   *)
(* the timeout error.                                                      *)

C4_TimeoutFixedDelay ==
    /\ \A i \in 1..Len(trace) :
          (trace[i].ev = "invoke" /\ trace[i].kind = "TimedOut") =>
              IF trace[i].n < max_retries
              THEN RetriedAfter(i, retry_delay)
              ELSE IsFinal(i) /\ outcome = ErrorValue(TimeoutText)
    /\ (Returned /\ operation = <<"TimedOut", "TimedOut", "TimedOut">>) =>
          /\ NumInvocations = max_retries
          /\ SleepDelays = <<retry_delay, retry_delay>>
          /\ outcome = ErrorValue(TimeoutText)

C4_Witness ==
    /\ pc = "done"
    /\ operation = <<"TimedOut", "TimedOut", "TimedOut">>
    /\ NumInvocations = 3
    /\ outcome = ErrorValue(TimeoutText)

(* C5: a failure of kind Other ends the call right after that attempt with *)
(* an error value carrying the exception's message: no sleep, no further   *)
(* invocation, whatever attempts remain.                                   *)

C5_OtherNotRetried ==
    \A i \in 1..Len(trace) :
        (trace[i].ev = "invoke" /\ trace[i].kind = "Other") =>
            /\ IsFinal(i)
            /\ outcome = ErrorValue(OtherErrorText(trace[i].message))
            /\ trace[i].message \in ExceptionMessages

C5_Witness ==
    /\ pc = "done"
    /\ operation[1] = "Other"
    /\ NumInvocations = 1
    /\ outcome.tag = "error"

(* C6: the call always returns, after at most max_retries invocations and  *)
(* at most max_retries - 1 sleeps, and a success is returned at once: the  *)
(* operation is never invoked again after it.                              *)

C6_Bounded ==
    /\ NumInvocations <= max_retries
    /\ Len(Sleeps) <= max_retries - 1
    /\ \A i \in 1..Len(trace) :
          trace[i].kind = "Success" =>
              IsFinal(i) /\ outcome = Success(trace[i].response)

C6_Terminates == []C6_Bounded /\ <>Returned

C6_Witness ==
    /\ pc = "done"
    /\ NumInvocations = max_retries
    /\ Len(Sleeps) = max_retries - 1

(* C7: no exception of the operation reaches the caller: the outcome of a  *)
(* call is the success value of an attempt or an error value with a text.  *)

C7_NeverPropagates ==
    /\ outcome.tag # "raised"
    /\ Returned =>
          \/ outcome.tag = "ok" /\ trace[Len(trace)].kind = "Success"
          \/ outcome.tag = "error" /\ outcome.error # <<>>
                 /\ FailedInvocations # <<>>

C7_Witness ==
    /\ pc = "done"
    /\ Len(FailedInvocations) = max_retries
    /\ outcome.tag = "error"

(* C8, as stated: after a call that made n attempts the log holds exactly  *)
(* n attempt reports, numbered 1..n, a successful attempt included.        *)

C8_EveryAttemptReported ==
    Returned =>
        /\ Len(AttemptReports) = NumInvocations
        /\ \A i \in 1..Len(AttemptReports) : AttemptReports[i].attempt = i

(* C8, amended: every failed attempt is reported with the function name,   *)
(* its attempt number and the exception text, in order; a successful       *)
(* attempt is not reported by safe_api_call.                               *)

C8_FailedAttemptsReported ==
    /\ Len(AttemptReports) = Len(FailedInvocations)
    /\ \A i \in 1..Len(AttemptReports) :
          /\ AttemptReports[i].category = "Application Error"
          /\ AttemptReports[i].attempt = i
          /\ AttemptReports[i].attempt = FailedInvocations[i].n
          /\ AttemptReports[i].function = FunctionName(func)
          /\ AttemptReports[i].error = <<FailedInvocations[i].message>>

C8_Witness ==
    /\ pc = "done"
    /\ outcome.tag = "ok"
    /\ NumInvocations = 3
    /\ Len(AttemptReports) = 2

(* C9, as stated: when all max_retries attempts have failed with           *)
(* retryable kinds, the outcome is the generic "Maximum retry attempts     *)
(* reached." error.                                                        *)

Exhausted ==
    /\ Returned
    /\ Len(FailedInvocations) = max_retries
    /\ \A i \in 1..max_retries :
          FailedInvocations[i].kind \in {"RateLimited", "TimedOut"}

C9_GenericAfterExhaustion ==
    Exhausted => outcome = ErrorValue(MaxRetriesText)

(* C9, amended: the generic error is never the outcome; when all           *)
(* max_retries attempts have failed with retryable kinds the outcome is    *)
(* the rate-limit or timeout error of the last failure.                    *)

C9_GenericNeverReturned ==
    /\ outcome.error # MaxRetriesText
    /\ Exhausted =>
          outcome = ErrorValue(IF trace[Len(trace)].kind = "RateLimited"
                               THEN RateLimitText ELSE TimeoutText)

C9_Witness ==
    /\ Exhausted
    /\ pc = "done"
    /\ outcome = ErrorValue(RateLimitText)

(* C10, as stated: the exception text never reaches the user: neither the  *)
(* error value of safe_api_call, nor what is displayed, nor the text that  *)
(* get_ai_response returns contains the message of a raised exception.     *)

UserFacingTexts ==
    {outcome.error, result} \cup {displayed[i].text : i \in 1..Len(displayed)}

C10_ExceptionTextHidden ==
    \A t \in UserFacingTexts : \A m \in ExceptionMessages : ~Contains(<<m>>, t)

----------------------------------------------------------------------------
(* APIResponseValidator: text of a completion                              *)
(*                                                                         *)
(* A completion is a sequence of tokens: metric names, ":", digits,        *)
(* whitespace and words.  CharLen gives the number of characters a token   *)
(* stands for, so that len() is the sum over the tokens.                   *)

expected_evaluation_fields ==
    <<"Relevance", "Clarity", "Technical Accuracy", "Depth", "Communication">>

max_response_length == 5000

min_response_length == 5

BriefFeedbackLength == 10

LongFeedbackLength == 500

Digits == {"0", "1", "2", "3", "4", "5", "6", "7", "8", "9"}

\* int(match.group(1))
DigitValue(d) ==
    CASE d = "0" -> 0 [] d = "1" -> 1 [] d = "2" -> 2 [] d = "3" -> 3
      [] d = "4" -> 4 [] d = "5" -> 5 [] d = "6" -> 6 [] d = "7" -> 7
      [] d = "8" -> 8 [] d = "9" -> 9

\* number of characters of a token
CharLen(tok) ==
    CASE tok = "Relevance" -> 9
      [] tok = "Clarity" -> 7
      [] tok = "Technical Accuracy" -> 18
      [] tok = "Depth" -> 5
      [] tok = "Communication" -> 13
      [] tok = "Feedback" -> 8
      [] tok = "high" -> 4
      [] tok = "Hi" -> 2
      [] tok = "Good." -> 5
      [] tok = "Clear and structured." -> 21
      [] tok = "[496 letters]" -> 496
      [] tok = "[4995 letters]" -> 4995
      [] tok = "Encouraging" -> 11
      [] tok = "Critical" -> 8
      [] tok = "Happy" -> 5
      [] tok = "[smiling face]" -> 1
      [] OTHER -> 1

RECURSIVE TextLen(_)
\* len(text)
TextLen(text) ==
    IF text = <<>> THEN 0 ELSE CharLen(Head(text)) + TextLen(Tail(text))

RECURSIVE SkipWhitespace(_, _)
\* the position after a greedy \s* that starts at position j
SkipWhitespace(text, j) ==
    IF j <= Len(text) /\ text[j] \in Whitespace
    THEN SkipWhitespace(text, j + 1)
    ELSE j

Min(S) == CHOOSE x \in S : \A y \in S : x <= y

\* the positions where rf"{field}:\s*(\d)" matches
ScoreMatches(content, field) ==
    { i \in 1..Len(content) :
        /\ content[i] = field
        /\ i + 1 <= Len(content) /\ content[i + 1] = ":"
        /\ LET j == SkipWhitespace(content, i + 2) IN
             j <= Len(content) /\ content[j] \in Digits }

\* re.search(pattern, content): the digit captured by the leftmost match
ScoreDigit(content, field) ==
    content[SkipWhitespace(content, Min(ScoreMatches(content, field)) + 2)]

\* the positions where r"Feedback:\s*(.+)" matches under re.DOTALL
FeedbackMatches(content) ==
    { i \in 1..Len(content) :
        /\ content[i] = "Feedback"
        /\ i + 1 <= Len(content) /\ content[i + 1] = ":"
        /\ i + 2 <= Len(content) }

\* feedback_match.group(1): what (.+) captures after the greedy \s*
FeedbackGroup(content) ==
    LET i == Min(FeedbackMatches(content))
        j == SkipWhitespace(content, i + 2)
    IN  IF j <= Len(content) THEN SubSeq(content, j, Len(content))
        ELSE <<content[Len(content)]>>

\* variant: the captured feedback is kept as matched, not stripped
ParsedFeedback_Unstripped(content) ==
    IF FeedbackMatches(content) = {} THEN <<>> ELSE FeedbackGroup(content)

\* feedback if 'feedback' in locals() else ""
ParsedFeedback(content) ==
    IF FeedbackMatches(content) = {} THEN <<>> ELSE Strip(FeedbackGroup(content))

\* the score stored for a field; -1 when none is stored
ParsedScore(content, field) ==
    IF ScoreMatches(content, field) = {} THEN -1
    ELSE LET score == DigitValue(ScoreDigit(content, field)) IN
         IF 1 <= score /\ score <= 5 THEN score ELSE -1

\* the scores dictionary after the loop over the expected fields
ParsedScores(content) ==
    LET stored == { k \in 1..Len(expected_evaluation_fields) :
                      ParsedScore(content, expected_evaluation_fields[k]) # -1 }
    IN  [ f \in { expected_evaluation_fields[k] : k \in stored } |->
            ParsedScore(content, f) ]

\* missing_fields after the loop
MissingFields(content) ==
    SelectSeq(expected_evaluation_fields,
              LAMBDA f : ScoreMatches(content, f) = {})

RECURSIVE Join(_, _)
\* sep.join(parts)
Join(parts, sep) ==
    IF parts = <<>> THEN <<>>
    ELSE IF Len(parts) = 1 THEN <<parts[1]>>
    ELSE <<parts[1], sep>> \o Join(Tail(parts), sep)

RECURSIVE RangeWarnings(_, _)
\* the out-of-range warnings, in the order of the loop, from field k on
RangeWarnings(content, k) ==
    IF k > Len(expected_evaluation_fields) THEN <<>>
    ELSE LET f == expected_evaluation_fields[k] IN
         ( IF ScoreMatches(content, f) # {} /\ ParsedScore(content, f) = -1
           THEN << <<"Score for ", f, " is out of range (1-5): ",
                     ScoreDigit(content, f)>> >>
           ELSE <<>> )
         \o RangeWarnings(content, k + 1)

MissingWarning(content) ==
    IF MissingFields(content) # <<>>
    THEN << <<"Missing evaluation fields: ">> \o Join(MissingFields(content), ", ") >>
    ELSE <<>>

NoFeedbackSectionWarning(content) ==
    IF ~Contains(<<"Feedback", ":">>, content)
    THEN << <<"No feedback section found in evaluation">> >>
    ELSE <<>>

FeedbackLengthWarning(content) ==
    IF FeedbackMatches(content) = {} THEN <<>>
    ELSE IF TextLen(ParsedFeedback(content)) < BriefFeedbackLength
         THEN << <<"Feedback is very brief">> >>
    ELSE IF TextLen(ParsedFeedback(content)) > LongFeedbackLength
         THEN << <<"Feedback is very long">> >>
    ELSE <<>>

NoCleaned ==
    [kind |-> "None", scores |-> <<>>, feedback |-> <<>>, mood_label |-> <<>>,
     explanation |-> <<>>, text |-> <<>>, raw_content |-> <<>>]

\* validation_result at the start of validate_openai_response
NewValidationResult ==
    [is_valid |-> TRUE, errors |-> <<>>, warnings |-> <<>>,
     cleaned_response |-> NoCleaned]

\* _validate_evaluation_response(content, validation_result)
ValidateEvaluationResponse(content, vr) ==
    [vr EXCEPT
       !.warnings = @ \o RangeWarnings(content, 1) \o MissingWarning(content)
                      \o NoFeedbackSectionWarning(content)
                      \o FeedbackLengthWarning(content),
       !.cleaned_response =
           [NoCleaned EXCEPT !.kind = "evaluation",
                             !.scores = ParsedScores(content),
                             !.feedback = ParsedFeedback(content),
                             !.raw_content = content]]

----------------------------------------------------------------------------
(* APIResponseValidator: mood and generic responses, and the dispatcher *)

RECURSIVE Split(_)
\* text.split('\n')
Split(text) ==
    LET breaks == { i \in 1..Len(text) : text[i] = "\n" } IN
    IF breaks = {} THEN <<text>>
    ELSE LET i == Min(breaks) IN
         <<SubSeq(text, 1, i - 1)>> \o Split(SubSeq(text, i + 1, Len(text)))

RECURSIVE JoinLines(_)
\* '\n'.join(lines)
JoinLines(lines) ==
    IF lines = <<>> THEN <<>>
    ELSE IF Len(lines) = 1 THEN lines[1]
    ELSE lines[1] \o <<"\n">> \o JoinLines(Tail(lines))

\* the characters of the emoji_pattern ranges
EmojiTokens == {"[smiling face]"}

expected_moods ==
    {"Encouraging", "Challenging", "Supportive", "Disengaged", "Neutral", "Critical"}

\* lines[0].strip() of content.strip().split('\n')
MoodLabel(content) == Strip(Split(Strip(content))[1])

\* '\n'.join(lines[1:]) if len(lines) > 1 else ""
MoodExplanation(content) ==
    LET lines == Split(Strip(content)) IN
    IF Len(lines) > 1 THEN JoinLines(Tail(lines)) ELSE <<>>

MoodWarnings(content) ==
    LET lines == Split(Strip(content))
        first_line == MoodLabel(content)
    IN  ( IF Len(lines) < 2
          THEN << <<"Mood response should have mood label and explanation">> >>
          ELSE <<>> )
        \o ( IF ~\E i \in 1..Len(first_line) : first_line[i] \in EmojiTokens
             THEN << <<"Mood response should include an emoji">> >>
             ELSE <<>> )
        \o ( IF ~\E i \in 1..Len(first_line) : first_line[i] \in expected_moods
             THEN << <<"Mood response doesn't contain expected mood labels">> >>
             ELSE <<>> )

\* variant: a mood response without a known label is rejected
ValidateMoodResponse_Strict(content, vr) ==
    [vr EXCEPT
       !.is_valid = Len(MoodWarnings(content)) = 0,
       !.errors = @ \o MoodWarnings(content),
       !.cleaned_response =
           [NoCleaned EXCEPT !.kind = "mood",
                             !.mood_label = MoodLabel(content),
                             !.explanation = MoodExplanation(content),
                             !.raw_content = content]]

\* _validate_mood_response(content, validation_result)
ValidateMoodResponse(content, vr) ==
    [vr EXCEPT
       !.warnings = @ \o MoodWarnings(content),
       !.cleaned_response =
           [NoCleaned EXCEPT !.kind = "mood",
                             !.mood_label = MoodLabel(content),
                             !.explanation = MoodExplanation(content),
                             !.raw_content = content]]

\* what looking up a method the class does not define raises
AttributeErrorText(method) ==
    <<"'APIResponseValidator' object has no attribute '", method, "'">>

\* a validation method that ran to its return statement
Completed(vr) == [raised |-> FALSE, message |-> <<>>, vr |-> vr]

\* a validation method left by an exception; vr is the dictionary as left
Aborted(message, vr) == [raised |-> TRUE, message |-> message, vr |-> vr]

\* the length check of _validate_generic_response
GenericLengthCheck(content, vr) ==
    IF TextLen(content) < min_response_length
    THEN [vr EXCEPT !.is_valid = FALSE,
                    !.errors = Append(@, <<"Response is too short">>)]
    ELSE IF TextLen(content) > max_response_length
    THEN [vr EXCEPT !.warnings = Append(@, <<"Response is very long">>)]
    ELSE vr

\* variant: the content check exists and finds nothing
ValidateGenericResponse_CheckDefined(content, vr) ==
    Completed([GenericLengthCheck(content, vr) EXCEPT
                 !.cleaned_response =
                     [NoCleaned EXCEPT !.kind = "text", !.text = Strip(content)]])

\* _validate_generic_response(content, validation_result): the class has no
\* _check_inappropriate_content, so the call after the length check raises
ValidateGenericResponse(content, vr) ==
    Aborted(AttributeErrorText("_check_inappropriate_content"),
            GenericLengthCheck(content, vr))

\* not content
IsEmptyContent(response) == response.content_is_none \/ response.content = <<>>

\* the if / elif chain over expected_type; the class defines neither
\* _validate_question_response nor _validate_ideal_answer_response
Dispatch(content, expected, vr) ==
    IF expected = "question"
    THEN Aborted(AttributeErrorText("_validate_question_response"), vr)
    ELSE IF expected = "evaluation"
    THEN Completed(ValidateEvaluationResponse(content, vr))
    ELSE IF expected = "mood_analysis"
    THEN Completed(ValidateMoodResponse(content, vr))
    ELSE IF expected = "ideal_answer"
    THEN Aborted(AttributeErrorText("_validate_ideal_answer_response"), vr)
    ELSE ValidateGenericResponse(content, vr)

\* validate_openai_response(response, expected_type)
ValidateOpenaiResponse(response, expected) ==
    IF ~response.has_choices
    THEN [NewValidationResult EXCEPT
            !.is_valid = FALSE,
            !.errors = Append(@, <<"Invalid API response: No choices found">>)]
    ELSE IF IsEmptyContent(response)
    THEN [NewValidationResult EXCEPT
            !.is_valid = FALSE,
            !.errors = Append(@, <<"API response is empty">>)]
    ELSE LET r == Dispatch(response.content, expected, NewValidationResult) IN
         IF r.raised
         THEN [r.vr EXCEPT
                 !.is_valid = FALSE,
                 !.errors = Append(@, <<"Error validating API response: ">>
                                        \o r.message)]
         ELSE r.vr

----------------------------------------------------------------------------
(* evaluate_answer, after a completion has come back *)

\* the positions where rf"{key}: (\d)" matches
FallbackMatches(content, key) ==
    { i \in 1..Len(content) :
        /\ i + 3 <= Len(content)
        /\ content[i] = key /\ content[i + 1] = ":" /\ content[i + 2] = " "
        /\ content[i + 3] \in Digits }

\* int(match.group(1)) if match else 0
FallbackScore(content, key) ==
    IF FallbackMatches(content, key) = {} THEN 0
    ELSE DigitValue(content[Min(FallbackMatches(content, key)) + 3])

FallbackScores(content) ==
    [ f \in { expected_evaluation_fields[k] :
                k \in 1..Len(expected_evaluation_fields) } |->
        FallbackScore(content, f) ]

NoFeedbackText == <<"No feedback available.">>

EvaluationApologyText ==
    <<"I apologize, but I encountered an issue evaluating your answer.">>

\* f"Evaluation error: {str(e)}"
EvaluationErrorText(message) == <<"Evaluation error: ">> \o message

NoneSearchMessage == <<"expected string or bytes-like object">>

NoChoicesMessage == <<"list index out of range">>

\* the (scores, feedback) pair evaluate_answer returns for a completion
EvaluateAnswerResult(response, vr) ==
    IF vr.is_valid
    THEN [scores |-> vr.cleaned_response.scores,
          feedback |-> vr.cleaned_response.feedback]
    ELSE IF ~response.has_choices
    THEN [scores |-> <<>>, feedback |-> EvaluationErrorText(NoChoicesMessage)]
    ELSE IF response.content_is_none
    THEN [scores |-> <<>>, feedback |-> EvaluationErrorText(NoneSearchMessage)]
    ELSE [scores |-> FallbackScores(response.content),
          feedback |-> IF FeedbackMatches(response.content) = {}
                       THEN NoFeedbackText
                       ELSE Strip(FeedbackGroup(response.content))]

----------------------------------------------------------------------------
(* Validation of one response: the inputs *)

MaxMoodLen == 4

MaxGenericLen == 5

\* all token sequences of length 1..n over the tokens
TextsOver(tokens, n) == UNION { [1..k -> tokens] : k \in 1..n }

ScoreDigits == {"0", "3", "5", "7"}

\* how a completion may render one metric: not at all, with a digit, or
\* twice with different digits; the first metric also without a digit
MetricRenderings(field) ==
    { <<>>, <<field, ":", "5", "\n">>,
      <<field, ":", " ", "7", "\n", field, ":", " ", "3", "\n">> }
      \cup { <<field, ":", " ", d, "\n">> : d \in ScoreDigits \ {"5", "7"} }
      \cup ( IF field = expected_evaluation_fields[1]
             THEN { <<field, ":", " ", "high", "\n">>, <<field, ":", " ", "7", "\n">> }
             ELSE {} )

FeedbackRenderings ==
    { <<>>,
      <<"Feedback", ":">>,
      <<"Feedback", ":", " ", "\n">>,
      <<"Feedback", ":", " ", "Clear and structured.", "\n">>,
      <<"Feedback", ":", "\n", " ", "Good.", " ", "Hi">>,
      <<"Feedback", ":", " ", "[496 letters]", "Good.">> }

EvaluationContents ==
    { r \o c \o t \o d \o m \o f :
        r \in MetricRenderings("Relevance"),
        c \in MetricRenderings("Clarity"),
        t \in MetricRenderings("Technical Accuracy"),
        d \in MetricRenderings("Depth"),
        m \in MetricRenderings("Communication"),
        f \in FeedbackRenderings } \ {<<>>}

MoodContents ==
    TextsOver({"Encouraging", "Happy", "[smiling face]", "why", " ", "\n"},
              MaxMoodLen)

GenericContents ==
    TextsOver({"Hi", "Good.", "[4995 letters]", " "}, MaxGenericLen)

ExpectedTypes == {"question", "evaluation", "mood_analysis", "ideal_answer", "generic"}

ContentsFor(expected) ==
    IF expected = "evaluation" THEN EvaluationContents
    ELSE IF expected = "mood_analysis" THEN MoodContents
    ELSE GenericContents

\* a response without choices, with content None, with content ""
EmptyResponses ==
    { [has_choices |-> FALSE, content_is_none |-> TRUE, content |-> <<>>],
      [has_choices |-> TRUE, content_is_none |-> TRUE, content |-> <<>>],
      [has_choices |-> TRUE, content_is_none |-> FALSE, content |-> <<>>] }

ResponsesFor(expected) ==
    EmptyResponses
      \cup [has_choices : {TRUE}, content_is_none : {FALSE},
            content : ContentsFor(expected)]

\* no remote call is running
CallIdle ==
    /\ func = [has_name |-> TRUE, name |-> "<lambda>"]
    /\ operation = [i \in 1..max_retries |-> "Success"]
    /\ attempt = 0
    /\ trace = <<>>
    /\ outcome = NoOutcome
    /\ app_log = <<>>
    /\ displayed = <<>>
    /\ throttle_sleeps = <<>>
    /\ token_usage = ZeroUsage
    /\ result = <<>>
    /\ logged_calls = [readable |-> TRUE, recent_calls |-> 0]
    /\ rate_status = NotChecked

ParseInit ==
    /\ CallIdle
    /\ StateIdle
    /\ ConfigIdle
    /\ pc = "validate"
    /\ expected_type \in ExpectedTypes
    /\ api_response \in ResponsesFor(expected_type)
    /\ validation_result = "-"
    /\ evaluation = "-"

\* api_validator.validate_openai_response(response, expected_type)
ValidateResponse ==
    /\ pc = "validate"
    /\ validation_result' = ValidateOpenaiResponse(api_response, expected_type)
    /\ pc' = "validated"
    /\ UNCHANGED <<api_response, expected_type, evaluation>>
    /\ UNCHANGED <<callVars, stateVars, configVars, recorded>>

\* evaluate_answer: from the validation result to the returned pair
EvaluateAnswerReturn ==
    /\ pc = "validated"
    /\ expected_type = "evaluation"
    /\ evaluation' = EvaluateAnswerResult(api_response, validation_result)
    /\ pc' = "evaluated"
    /\ UNCHANGED <<api_response, expected_type, validation_result>>
    /\ UNCHANGED <<callVars, stateVars, configVars, recorded>>

\* evaluate_answer when safe_api_call gave an error dictionary in place of
\* the response: the error is displayed, nothing is validated
EvaluateAnswerOnError ==
    /\ pc = "validate"
    /\ expected_type = "evaluation"
    /\ evaluation' = [scores |-> <<>>, feedback |-> EvaluationApologyText]
    /\ pc' = "evaluation_failed"
    /\ UNCHANGED <<api_response, expected_type, validation_result>>
    /\ UNCHANGED <<callVars, stateVars, configVars, recorded>>

ParseNext ==
    \/ ValidateResponse
    \/ EvaluateAnswerReturn
    \/ EvaluateAnswerOnError

ParseSpec == ParseInit /\ [][ParseNext]_allVars

----------------------------------------------------------------------------
(* SessionStateValidator: st.session_state and its validation              *)
(*                                                                         *)
(* session_state is a record: present is the set of keys that are in       *)
(* st.session_state, and every key has a value tagged with what Python's   *)
(* isinstance would say about it.  A key that is not present holds the     *)
(* placeholder of its kind.                                                *)

required_fields == <<"messages", "interview_started", "job_role">>

SessionFields ==
    {"messages", "interview_started", "job_role", "query_count", "token_usage"}

UsageFields == <<"prompt_tokens", "completion_tokens", "total_tokens", "estimated_cost">>

ExpectedRoles == {"system", "user", "assistant"}

\* a Python value of a scalar field: its type and, for numbers, its value
IntValue(n) == [type |-> "int", value |-> n]

FloatValue(n) == [type |-> "float", value |-> n]

StrValue == [type |-> "str", value |-> 0]

AbsentValue == [type |-> "absent", value |-> 0]

\* str(i) for the small numbers that occur
IntText(n) ==
    LET digit(m) == CASE m = 0 -> "0" [] m = 1 -> "1" [] m = 2 -> "2"
                      [] m = 3 -> "3" [] m = 4 -> "4" [] m = 5 -> "5"
                      [] m = 6 -> "6" [] m = 7 -> "7" [] m = 8 -> "8"
                      [] m = 9 -> "9" [] OTHER -> "[number]"
    IN  IF n < 0 THEN "-" \o digit(0 - n) ELSE digit(n)

\* str(value) inside an f-string
ValueText(v) ==
    IF v.type = "int" THEN IntText(v.value)
    ELSE IF v.type = "float" THEN IntText(v.value) \o ".0"
    ELSE "fifty"

\* a list entry that is a dictionary with both keys and text content
Message(role, content) ==
    [is_dict |-> TRUE, has_role |-> TRUE, role |-> role,
     has_content |-> TRUE, content_is_str |-> TRUE, content |-> content]

\* a list entry that is not a dictionary
NotADictionary ==
    [is_dict |-> FALSE, has_role |-> FALSE, role |-> "",
     has_content |-> FALSE, content_is_str |-> FALSE, content |-> <<>>]

\* st.session_state.messages holding a list
MessageList(items) == [is_list |-> TRUE, items |-> items]

\* st.session_state.messages holding something that is not a list
NotAList == [is_list |-> FALSE, items |-> <<>>]

ZeroCounters ==
    [prompt_tokens |-> IntValue(0), completion_tokens |-> IntValue(0),
     total_tokens |-> IntValue(0), estimated_cost |-> FloatValue(0)]

\* the token_usage dictionary as interview.py and repair create it
DefaultTokenUsage == [is_dict |-> TRUE, counters |-> ZeroCounters]

NotADict == [is_dict |-> FALSE, counters |-> ZeroCounters]

\* variant: an unexpected role is reported as an error
MessageFindings_RoleIsError(message, i) ==
    IF ~message.is_dict
    THEN [errors |-> << <<"Message ", IntText(i), " is not a dictionary">> >>,
          warnings |-> <<>>]
    ELSE [errors |->
            ( IF ~message.has_role
              THEN << <<"Message ", IntText(i), " missing 'role' field">> >>
              ELSE IF message.role \notin ExpectedRoles
              THEN << <<"Message ", IntText(i), " has unexpected role: ", message.role>> >>
              ELSE <<>> )
            \o ( IF ~message.has_content
                 THEN << <<"Message ", IntText(i), " missing 'content' field">> >>
                 ELSE IF ~message.content_is_str
                 THEN << <<"Message ", IntText(i), " content is not a string">> >>
                 ELSE <<>> ),
          warnings |-> <<>>]

\* the errors and warnings of one list entry, entry number i (0-based)
MessageFindings(message, i) ==
    IF ~message.is_dict
    THEN [errors |-> << <<"Message ", IntText(i), " is not a dictionary">> >>,
          warnings |-> <<>>]
    ELSE [errors |->
            ( IF ~message.has_role
              THEN << <<"Message ", IntText(i), " missing 'role' field">> >>
              ELSE <<>> )
            \o ( IF ~message.has_content
                 THEN << <<"Message ", IntText(i), " missing 'content' field">> >>
                 ELSE IF ~message.content_is_str
                 THEN << <<"Message ", IntText(i), " content is not a string">> >>
                 ELSE <<>> ),
          warnings |->
            IF message.has_role /\ message.role \notin ExpectedRoles
            THEN << <<"Message ", IntText(i), " has unexpected role: ", message.role>> >>
            ELSE <<>>]

RECURSIVE ListFindings(_, _)
\* the loop over enumerate(messages), from entry k (1-based) on
ListFindings(items, k) ==
    IF k > Len(items) THEN [errors |-> <<>>, warnings |-> <<>>]
    ELSE LET here == MessageFindings(items[k], k - 1)
             rest == ListFindings(items, k + 1)
         IN  [errors |-> here.errors \o rest.errors,
              warnings |-> here.warnings \o rest.warnings]

\* _validate_messages()
ValidateMessages(messages) ==
    IF ~messages.is_list
    THEN [errors |-> << <<"Messages should be a list">> >>, warnings |-> <<>>]
    ELSE ListFindings(messages.items, 1)

RECURSIVE CounterWarnings(_, _)
\* the loop over the four fields of token_usage, from field k on
CounterWarnings(counters, k) ==
    IF k > Len(UsageFields) THEN <<>>
    ELSE LET field == UsageFields[k]
             value == counters[field]
         IN  ( IF value.type = "absent"
               THEN << <<"Token usage missing field: ", field>> >>
               ELSE IF field = "estimated_cost"
               THEN IF value.type \notin {"int", "float"} \/ value.value < 0
                    THEN << <<"Invalid estimated cost: ", ValueText(value)>> >>
                    ELSE <<>>
               ELSE IF value.type # "int" \/ value.value < 0
                    THEN << <<"Invalid ", field, ": ", ValueText(value)>> >>
                    ELSE <<>> )
             \o CounterWarnings(counters, k + 1)

\* _validate_token_usage()
ValidateTokenUsage(usage) ==
    IF ~usage.is_dict
    THEN [errors |-> << <<"Token usage should be a dictionary">> >>, warnings |-> <<>>]
    ELSE [errors |-> <<>>, warnings |-> CounterWarnings(usage.counters, 1)]

\* variant: only the type of query_count is checked
QueryCountInvalid_NegativeAllowed(query_count) ==
    query_count.type # "int"

\* not isinstance(query_count, int) or query_count < 0
QueryCountInvalid(query_count) ==
    query_count.type # "int" \/ query_count.value < 0

\* validation_result at the start of validate_session_state
NewSessionValidation ==
    [is_valid |-> TRUE, errors |-> <<>>, warnings |-> <<>>,
     missing_fields |-> <<>>, corrupted_fields |-> <<>>]

\* validate_session_state(): the report for the record ss
ValidateSessionState(ss) ==
    LET missing == SelectSeq(required_fields, LAMBDA f : f \notin ss.present)
        missing_warnings ==
            [k \in 1..Len(missing) |->
               <<"Missing required session field: ", missing[k]>>]
        messages == IF "messages" \in ss.present
                    THEN ValidateMessages(ss.messages)
                    ELSE [errors |-> <<>>, warnings |-> <<>>]
        corrupted == "query_count" \in ss.present /\ QueryCountInvalid(ss.query_count)
        usage == IF "token_usage" \in ss.present
                 THEN ValidateTokenUsage(ss.token_usage)
                 ELSE [errors |-> <<>>, warnings |-> <<>>]
    IN  [is_valid |-> TRUE,
         errors |-> messages.errors \o usage.errors,
         warnings |-> missing_warnings \o messages.warnings
                        \o ( IF corrupted THEN << <<"Query count is invalid">> >>
                             ELSE <<>> )
                        \o usage.warnings,
         missing_fields |-> missing,
         corrupted_fields |-> IF corrupted THEN <<"query_count">> ELSE <<>>]

NoRepair == [repaired |-> FALSE, actions_taken |-> <<>>]

\* variant: the reset of query_count is not entered in actions_taken
RepairSessionState_CountUnlogged(ss) ==
    LET validation == ValidateSessionState(ss)
        no_messages == "messages" \notin ss.present
        no_started == "interview_started" \notin ss.present
        no_job_role == "job_role" \notin ss.present
        bad_count == validation.corrupted_fields # <<>>
        bad_usage == "token_usage" \notin ss.present \/ ~ss.token_usage.is_dict
        actions ==
            ( IF no_messages THEN <<"Initialized empty messages list">> ELSE <<>> )
            \o ( IF no_started THEN <<"Set interview_started to False">> ELSE <<>> )
            \o ( IF no_job_role THEN <<"Initialized empty job_role">> ELSE <<>> )
            \o ( IF bad_usage THEN <<"Reset token_usage to default values">> ELSE <<>> )
    IN  [state |->
           [present |-> ss.present \cup ( IF no_messages THEN {"messages"} ELSE {} )
                          \cup ( IF no_started THEN {"interview_started"} ELSE {} )
                          \cup ( IF no_job_role THEN {"job_role"} ELSE {} )
                          \cup ( IF bad_usage THEN {"token_usage"} ELSE {} ),
            messages |-> IF no_messages THEN MessageList(<<>>) ELSE ss.messages,
            interview_started |-> IF no_started THEN FALSE ELSE ss.interview_started,
            job_role |-> IF no_job_role THEN <<>> ELSE ss.job_role,
            query_count |-> IF bad_count THEN IntValue(0) ELSE ss.query_count,
            token_usage |-> IF bad_usage THEN DefaultTokenUsage ELSE ss.token_usage],
         result |-> [repaired |-> actions # <<>>, actions_taken |-> actions]]

\* variant: token_usage is reset on every call
RepairSessionState_AlwaysResetsUsage(ss) ==
    LET validation == ValidateSessionState(ss)
        no_messages == "messages" \notin ss.present
        no_started == "interview_started" \notin ss.present
        no_job_role == "job_role" \notin ss.present
        bad_count == validation.corrupted_fields # <<>>
        bad_usage == TRUE
        actions ==
            ( IF no_messages THEN <<"Initialized empty messages list">> ELSE <<>> )
            \o ( IF no_started THEN <<"Set interview_started to False">> ELSE <<>> )
            \o ( IF no_job_role THEN <<"Initialized empty job_role">> ELSE <<>> )
            \o ( IF bad_count THEN <<"Reset query_count to 0">> ELSE <<>> )
            \o ( IF bad_usage THEN <<"Reset token_usage to default values">> ELSE <<>> )
    IN  [state |->
           [present |-> ss.present \cup ( IF no_messages THEN {"messages"} ELSE {} )
                          \cup ( IF no_started THEN {"interview_started"} ELSE {} )
                          \cup ( IF no_job_role THEN {"job_role"} ELSE {} )
                          \cup ( IF bad_usage THEN {"token_usage"} ELSE {} ),
            messages |-> IF no_messages THEN MessageList(<<>>) ELSE ss.messages,
            interview_started |-> IF no_started THEN FALSE ELSE ss.interview_started,
            job_role |-> IF no_job_role THEN <<>> ELSE ss.job_role,
            query_count |-> IF bad_count THEN IntValue(0) ELSE ss.query_count,
            token_usage |-> IF bad_usage THEN DefaultTokenUsage ELSE ss.token_usage],
         result |-> [repaired |-> actions # <<>>, actions_taken |-> actions]]

\* repair_session_state(): the record after the repair and the report
RepairSessionState(ss) ==
    LET validation == ValidateSessionState(ss)
        no_messages == "messages" \notin ss.present
        no_started == "interview_started" \notin ss.present
        no_job_role == "job_role" \notin ss.present
        bad_count == validation.corrupted_fields # <<>>
        bad_usage == "token_usage" \notin ss.present \/ ~ss.token_usage.is_dict
        actions ==
            ( IF no_messages THEN <<"Initialized empty messages list">> ELSE <<>> )
            \o ( IF no_started THEN <<"Set interview_started to False">> ELSE <<>> )
            \o ( IF no_job_role THEN <<"Initialized empty job_role">> ELSE <<>> )
            \o ( IF bad_count THEN <<"Reset query_count to 0">> ELSE <<>> )
            \o ( IF bad_usage THEN <<"Reset token_usage to default values">> ELSE <<>> )
    IN  [state |->
           [present |-> ss.present \cup ( IF no_messages THEN {"messages"} ELSE {} )
                          \cup ( IF no_started THEN {"interview_started"} ELSE {} )
                          \cup ( IF no_job_role THEN {"job_role"} ELSE {} )
                          \cup ( IF bad_usage THEN {"token_usage"} ELSE {} ),
            messages |-> IF no_messages THEN MessageList(<<>>) ELSE ss.messages,
            interview_started |-> IF no_started THEN FALSE ELSE ss.interview_started,
            job_role |-> IF no_job_role THEN <<>> ELSE ss.job_role,
            query_count |-> IF bad_count THEN IntValue(0) ELSE ss.query_count,
            token_usage |-> IF bad_usage THEN DefaultTokenUsage ELSE ss.token_usage],
         result |-> [repaired |-> actions # <<>>, actions_taken |-> actions]]

----------------------------------------------------------------------------
(* Validation and repair of a session record: the inputs *)

MaxMessages == 2

RoleOptions ==
    { [has_role |-> FALSE, role |-> ""],
      [has_role |-> TRUE, role |-> "user"],
      [has_role |-> TRUE, role |-> "moderator"] }

ContentOptions ==
    { [has_content |-> FALSE, content_is_str |-> FALSE, content |-> <<>>],
      [has_content |-> TRUE, content_is_str |-> FALSE, content |-> <<>>],
      [has_content |-> TRUE, content_is_str |-> TRUE, content |-> <<"Hi">>] }

MessageShapes ==
    { NotADictionary }
      \cup { [is_dict |-> TRUE, has_role |-> r.has_role, role |-> r.role,
              has_content |-> c.has_content, content_is_str |-> c.content_is_str,
              content |-> c.content] : r \in RoleOptions, c \in ContentOptions }

MessagesValues ==
    { NotAList }
      \cup { MessageList(items) :
               items \in UNION { [1..k -> MessageShapes] : k \in 0..MaxMessages } }

QueryCountValues == { IntValue(3), IntValue(0 - 5), StrValue }

TokenUsageValues ==
    { DefaultTokenUsage,
      [is_dict |-> TRUE,
       counters |-> [prompt_tokens |-> IntValue(2), completion_tokens |-> IntValue(1),
                     total_tokens |-> IntValue(3), estimated_cost |-> FloatValue(5)]],
      NotADict,
      [is_dict |-> TRUE, counters |-> [ZeroCounters EXCEPT !.total_tokens = AbsentValue]],
      [is_dict |-> TRUE, counters |-> [ZeroCounters EXCEPT !.prompt_tokens = IntValue(0 - 5)]],
      [is_dict |-> TRUE, counters |-> [ZeroCounters EXCEPT !.estimated_cost = StrValue]] }

\* the records st.session_state may hold when a validator method is called
SessionRecords ==
    { [present |-> present,
       messages |-> IF "messages" \in present THEN m ELSE MessageList(<<>>),
       interview_started |-> "interview_started" \in present,
       job_role |-> IF "job_role" \in present THEN <<"Data Engineer">> ELSE <<>>,
       query_count |-> IF "query_count" \in present THEN q ELSE AbsentValue,
       token_usage |-> IF "token_usage" \in present THEN t ELSE DefaultTokenUsage] :
        present \in SUBSET SessionFields,
        m \in MessagesValues, q \in QueryCountValues, t \in TokenUsageValues }

GuardInit ==
    /\ CallIdle
    /\ ParseIdle
    /\ ConfigIdle
    /\ pc = "guard"
    /\ session_state \in SessionRecords
    /\ session_validation = NewSessionValidation
    /\ repair_result = NoRepair
    /\ notice = <<>>
    /\ remote_calls = <<>>
    /\ turns = 0
    /\ last_question = <<>>

\* session_validator.validate_session_state()
ValidateSessionStateCall ==
    /\ pc \in {"guard", "session_validated", "session_repaired"}
    /\ session_validation' = ValidateSessionState(session_state)
    /\ pc' = "session_validated"
    /\ UNCHANGED <<session_state, repair_result, notice, remote_calls, turns,
                   last_question>>
    /\ UNCHANGED <<callVars, parseVars, configVars, recorded>>

\* session_validator.repair_session_state()
RepairSessionStateCall ==
    /\ pc \in {"guard", "session_validated", "session_repaired"}
    /\ session_state' = RepairSessionState(session_state).state
    /\ repair_result' = RepairSessionState(session_state).result
    /\ pc' = "session_repaired"
    /\ UNCHANGED <<session_validation, notice, remote_calls, turns, last_question>>
    /\ UNCHANGED <<callVars, parseVars, configVars, recorded>>

GuardNext ==
    \/ ValidateSessionStateCall
    \/ RepairSessionStateCall

GuardSpec == GuardInit /\ [][GuardNext]_allVars

----------------------------------------------------------------------------
(* The interview page: one run of interview.py per user event *)

MaxQueryCount == 7

MaxTotalTokens == 54

UsageLimitNotice == <<"Usage limit reached for this session.">>

EnterJobRoleNotice == <<"Please enter a job role.">>

EnterAnswerNotice == <<"Please enter your answer before submitting.">>

SessionIssuesNotice == <<"Session state issues detected. Attempting repair...">>

\* get_system_prompt(role, difficulty_level)
SystemPrompt(job_role) ==
    <<"You are a professional interview coach simulating an interview for the role of ">>
      \o job_role

\* what the job role box, the custom question box and the answer box may hold
JobRoleInputs == { <<>>, <<"Data Engineer">> }

CustomQuestionInputs == { <<>>, <<"Why this role?">> }

UserReplies == { <<>>, <<" ">>, <<"I led a migration.">> }

\* how a remote call ends: a completion, or an error after the retries
CallOutcomes == {"completion", "error"}

\* how the remote calls of one processed answer end, call by call: all
\* complete, or the first one fails
TurnOutcomes ==
    { <<"completion", "completion", "completion", "completion", "completion">>,
      <<"error", "completion", "completion", "completion", "completion">> }

\* the usage every completion of a page run reports
CompletionUsage == [prompt_tokens |-> 1, completion_tokens |-> 1, total_tokens |-> 2]

\* the remote calls of one processed answer, in the order they are issued
TurnCalls ==
    <<"get_ai_response", "evaluate_answer", "analyze_mood",
      "generate_ideal_answer_based_on_user_input", "generate_ideal_answer">>

\* update_token_usage(usage) on the dictionary in st.session_state
RecordUsage(usage_field, usage) ==
    LET c == usage_field.counters
        after == UpdateTokenUsage(
                   [prompt_tokens |-> c.prompt_tokens.value,
                    completion_tokens |-> c.completion_tokens.value,
                    total_tokens |-> c.total_tokens.value,
                    estimated_cost |-> c.estimated_cost.value], usage)
    IN  [usage_field EXCEPT
           !.counters = [prompt_tokens |-> IntValue(after.prompt_tokens),
                         completion_tokens |-> IntValue(after.completion_tokens),
                         total_tokens |-> IntValue(after.total_tokens),
                         estimated_cost |-> FloatValue(after.estimated_cost)]]

\* the usage of n completions, recorded one after the other: the sums are
\* those of one update with n times the usage
RecordUsages(usage_field, n) ==
    RecordUsage(usage_field,
                [prompt_tokens |-> n * CompletionUsage.prompt_tokens,
                 completion_tokens |-> n * CompletionUsage.completion_tokens,
                 total_tokens |-> n * CompletionUsage.total_tokens])

\* what get_ai_response returns for the outcome of its remote call
AiResponseText(call_outcome) ==
    IF call_outcome = "completion" THEN <<"Next question?">> ELSE ApologyText

\* the page from its first line to the job role form: the missing keys are
\* created, the record is validated and, on errors, repaired; before the
\* interview has started query_count is set to 0
PageTop(ss) ==
    LET created == [ss EXCEPT !.present = @ \cup {"messages", "token_usage"}]
        validation == ValidateSessionState(created)
        repair == IF validation.errors # <<>>
                  THEN RepairSessionState(created)
                  ELSE [state |-> created, result |-> NoRepair]
        flagged == [repair.state EXCEPT !.present = @ \cup {"interview_started"}]
    IN  [state |-> IF ~flagged.interview_started
                   THEN [flagged EXCEPT !.present = @ \cup {"query_count"},
                                        !.query_count = IntValue(0)]
                   ELSE flagged,
         validation |-> validation,
         repaired |-> validation.errors # <<>>,
         repair |-> repair.result,
         notice |-> IF validation.errors # <<>> THEN <<SessionIssuesNotice>> ELSE <<>>]

\* variant: the limit is checked one turn late
LimitReached_OneLate(query_count) == query_count > 6

\* st.session_state.query_count > 5
LimitReached(query_count) == query_count > 5

\* variant: the conversation starts with the first question, without the
\* system prompt
StartPracticeHandler_NoSystemPrompt(ss, job_role, custom_question, call_outcome) ==
    IF job_role = <<>>
    THEN [state |-> ss, notice |-> <<EnterJobRoleNotice>>, calls |-> <<>>,
          completions |-> 0, processed |-> FALSE]
    ELSE LET initial_prompt == IF custom_question # <<>> THEN custom_question
                               ELSE AiResponseText(call_outcome)
             calls == IF custom_question # <<>> THEN <<>> ELSE <<"get_ai_response">>
             completions == IF custom_question = <<>> /\ call_outcome = "completion"
                            THEN 1 ELSE 0
         IN  [state |->
                [ss EXCEPT
                   !.present = @ \cup {"interview_started", "job_role",
                                       "query_count", "messages"},
                   !.interview_started = TRUE,
                   !.job_role = job_role,
                   !.query_count = IntValue(0),
                   !.messages = MessageList(<<Message("user", initial_prompt)>>),
                   !.token_usage = RecordUsages(@, completions)],
              notice |-> <<>>, calls |-> calls, completions |-> completions,
              processed |-> FALSE]

\* the "Start Practice" handler
StartPracticeHandler(ss, job_role, custom_question, call_outcome) ==
    IF job_role = <<>>
    THEN [state |-> ss, notice |-> <<EnterJobRoleNotice>>, calls |-> <<>>,
          completions |-> 0, processed |-> FALSE]
    ELSE LET initial_prompt == IF custom_question # <<>> THEN custom_question
                               ELSE AiResponseText(call_outcome)
             calls == IF custom_question # <<>> THEN <<>> ELSE <<"get_ai_response">>
             completions == IF custom_question = <<>> /\ call_outcome = "completion"
                            THEN 1 ELSE 0
         IN  [state |->
                [ss EXCEPT
                   !.present = @ \cup {"interview_started", "job_role",
                                       "query_count", "messages"},
                   !.interview_started = TRUE,
                   !.job_role = job_role,
                   !.query_count = IntValue(0),
                   !.messages = MessageList(<<Message("system", SystemPrompt(job_role)),
                                              Message("user", initial_prompt)>>),
                   !.token_usage = RecordUsages(@, completions)],
              notice |-> <<>>, calls |-> calls, completions |-> completions,
              processed |-> FALSE]

\* variant: the question evaluated is read from messages[-2], the answer itself
SubmitAnswerHandler_EvaluatesAnswer(ss, user_reply, outcomes) ==
    LET before == IF "query_count" \notin ss.present THEN 0 ELSE ss.query_count.value
        counted == [ss EXCEPT !.present = @ \cup {"query_count"},
                              !.query_count = IntValue(before + 1)]
    IN  IF LimitReached(counted.query_count.value)
        THEN [state |-> counted, notice |-> <<UsageLimitNotice>>, calls |-> <<>>,
              completions |-> 0, processed |-> FALSE, question |-> <<>>]
        ELSE IF Strip(user_reply) = <<>>
        THEN [state |-> counted, notice |-> <<EnterAnswerNotice>>, calls |-> <<>>,
              completions |-> 0, processed |-> FALSE, question |-> <<>>]
        ELSE LET completions ==
                     Cardinality({ k \in 1..Len(TurnCalls) : outcomes[k] = "completion" })
                 messages ==
                     counted.messages.items
                        \o <<Message("user", user_reply),
                              Message("assistant", AiResponseText(outcomes[1]))>>
             IN  [state |->
                    [counted EXCEPT
                       !.messages.items = messages,
                       !.token_usage = RecordUsages(@, completions)],
                  notice |-> <<>>, calls |-> TurnCalls, completions |-> completions,
                  processed |-> TRUE,
                  question |-> <<messages[Len(messages) - 1].content>>]

\* the "Submit Answer" handler; outcomes[k] is how the k-th remote call of
\* the turn ends; question is messages[-3] after the two appends, the text
\* handed to evaluate_answer and to the ideal-answer calls
SubmitAnswerHandler(ss, user_reply, outcomes) ==
    LET before == IF "query_count" \notin ss.present THEN 0 ELSE ss.query_count.value
        counted == [ss EXCEPT !.present = @ \cup {"query_count"},
                              !.query_count = IntValue(before + 1)]
    IN  IF LimitReached(counted.query_count.value)
        THEN [state |-> counted, notice |-> <<UsageLimitNotice>>, calls |-> <<>>,
              completions |-> 0, processed |-> FALSE, question |-> <<>>]
        ELSE IF Strip(user_reply) = <<>>
        THEN [state |-> counted, notice |-> <<EnterAnswerNotice>>, calls |-> <<>>,
              completions |-> 0, processed |-> FALSE, question |-> <<>>]
        ELSE LET completions ==
                     Cardinality({ k \in 1..Len(TurnCalls) : outcomes[k] = "completion" })
                 messages ==
                     counted.messages.items
                        \o <<Message("user", user_reply),
                              Message("assistant", AiResponseText(outcomes[1]))>>
             IN  [state |->
                    [counted EXCEPT
                       !.messages.items = messages,
                       !.token_usage = RecordUsages(@, completions)],
                  notice |-> <<>>, calls |-> TurnCalls, completions |-> completions,
                  processed |-> TRUE,
                  question |-> <<messages[Len(messages) - 2].content>>]

\* variant: token_usage is deleted with the other keys and created again
ResetInterviewHandler_ClearsUsage(ss) ==
    [ss EXCEPT !.present = {"token_usage", "interview_started", "messages", "query_count"},
               !.interview_started = FALSE,
               !.messages = MessageList(<<>>),
               !.query_count = IntValue(0),
               !.job_role = <<>>,
               !.token_usage = DefaultTokenUsage]

\* the "Reset Interview" handler: every key but debug_mode and token_usage
\* is deleted, three keys are set again
ResetInterviewHandler(ss) ==
    [ss EXCEPT !.present = {"token_usage", "interview_started", "messages", "query_count"},
               !.interview_started = FALSE,
               !.messages = MessageList(<<>>),
               !.query_count = IntValue(0),
               !.job_role = <<>>]

\* st.session_state after clear(), and before the page has created a key
ClearedSession == [OpenedSession EXCEPT !.present = {}]

\* the page has been opened once: without an API key that run has stopped
\* at the configuration check, before any key of the session was created
SessionInit ==
    /\ CallIdle
    /\ ParseIdle
    /\ api_key_configured \in BOOLEAN
    /\ user_settings = "-"
    /\ settings_validation = "-"
    /\ recorded = <<>>
    /\ session_state = IF api_key_configured THEN OpenedSession ELSE ClearedSession
    /\ session_validation = NewSessionValidation
    /\ repair_result = NoRepair
    /\ notice = <<>>
    /\ remote_calls = <<>>
    /\ turns = 0
    /\ last_question = <<>>
    /\ pc = "open"

\* variant: the missing key is reported but the report stays valid
ValidateAppConfig_StaysValid(configured) ==
    IF ~configured
    THEN [is_valid |-> TRUE,
          errors |-> << <<"OpenAI API key is not configured">> >>,
          warnings |-> <<>>]
    ELSE [is_valid |-> TRUE, errors |-> <<>>, warnings |-> <<>>]

\* validate_app_config(), for a key of the usual length and an existing
\* logs directory
ValidateAppConfig(configured) ==
    IF ~configured
    THEN [is_valid |-> FALSE,
          errors |-> << <<"OpenAI API key is not configured">> >>,
          warnings |-> <<>>]
    ELSE [is_valid |-> TRUE, errors |-> <<>>, warnings |-> <<>>]

\* the run stops at st.stop() after the configuration errors were displayed
ConfigStops == ~ValidateAppConfig(api_key_configured).is_valid

\* display_error(..., "error") has put a "Restart Session" button on the
\* page: at the configuration check of every run without an API key, or in
\* the last run inside a handler whose get_ai_response call failed
RestartButtonShown ==
    \/ ConfigStops
    \/ /\ remote_calls # <<>>
       /\ session_state.messages.items # <<>>
       /\ session_state.messages.items[Len(session_state.messages.items)].content
            = ApologyText

\* a run of the page in which no button was pressed
RunPage ==
    /\ pc \in {"open", "run", "start", "submit", "reset", "restart"}
    /\ IF ConfigStops
       THEN /\ notice' = <<>>
            /\ UNCHANGED <<session_state, session_validation, repair_result>>
       ELSE \E top \in {PageTop(session_state)} :
              /\ session_state' = top.state
              /\ session_validation' = top.validation
              /\ repair_result' = IF top.repaired THEN top.repair ELSE repair_result
              /\ notice' = top.notice
    /\ remote_calls' = <<>>
    /\ last_question' = <<>>
    /\ pc' = "run"
    /\ UNCHANGED turns
    /\ UNCHANGED <<callVars, parseVars, configVars, recorded>>

\* a run of the page after "Start Practice" was pressed; the button is
\* disabled once the interview has started
StartPractice ==
    /\ pc \in {"run", "start", "submit", "reset", "restart"}
    /\ ~ConfigStops
    /\ ~session_state.interview_started
    /\ \E job_role \in JobRoleInputs, custom_question \in CustomQuestionInputs,
          call_outcome \in CallOutcomes :
         \E top \in {PageTop(session_state)} :
         \E h \in {StartPracticeHandler(top.state, job_role, custom_question, call_outcome)} :
             /\ h.state.token_usage.counters.total_tokens.value <= MaxTotalTokens
             /\ session_state' = h.state
             /\ session_validation' = top.validation
             /\ repair_result' = IF top.repaired THEN top.repair ELSE repair_result
             /\ notice' = top.notice \o h.notice
             /\ remote_calls' = h.calls
             /\ turns' = IF h.state.interview_started THEN 0 ELSE turns
    /\ last_question' = <<>>
    /\ pc' = "start"
    /\ UNCHANGED <<callVars, parseVars, configVars, recorded>>

\* a run of the page after "Submit Answer" was pressed; the button is shown
\* while the conversation is not empty
SubmitAnswer ==
    /\ pc \in {"run", "start", "submit", "reset", "restart"}
    /\ ~ConfigStops
    /\ session_state.messages.items # <<>>
    /\ session_state.interview_started
    /\ session_state.query_count.value < MaxQueryCount
    /\ \E user_reply \in UserReplies, outcomes \in TurnOutcomes :
         \E top \in {PageTop(session_state)} :
         \E h \in {SubmitAnswerHandler(top.state, user_reply, outcomes)} :
             /\ h.state.token_usage.counters.total_tokens.value <= MaxTotalTokens
             /\ session_state' = h.state
             /\ session_validation' = top.validation
             /\ repair_result' = IF top.repaired THEN top.repair ELSE repair_result
             /\ notice' = top.notice \o h.notice
             /\ remote_calls' = h.calls
             /\ turns' = IF h.processed THEN turns + 1 ELSE turns
             /\ last_question' = h.question
    /\ pc' = "submit"
    /\ UNCHANGED <<callVars, parseVars, configVars, recorded>>

\* a run of the page after "Reset Interview" was pressed, and the rerun the
\* handler forces
ResetInterview ==
    /\ pc \in {"run", "start", "submit", "reset", "restart"}
    /\ ~ConfigStops
    /\ session_state.interview_started
    /\ \E top \in {PageTop(session_state)} :
       \E rerun \in {PageTop(ResetInterviewHandler(top.state))} :
           /\ session_state' = rerun.state
           /\ session_validation' = rerun.validation
           /\ repair_result' = IF rerun.repaired THEN rerun.repair
                                ELSE IF top.repaired THEN top.repair
                                ELSE repair_result
           /\ notice' = rerun.notice
    /\ remote_calls' = <<>>
    /\ last_question' = <<>>
    /\ pc' = "reset"
    /\ UNCHANGED turns
    /\ UNCHANGED <<callVars, parseVars, configVars, recorded>>

\* a run of the page after "Restart Session" was pressed.  st.button gives
\* True only in the run its click starts and only where that run creates the
\* button again.  Without an API key the configuration check creates it in
\* every run: the session is cleared and the forced rerun stops at the same
\* check.  A button created inside the "Start Practice" or "Submit Answer"
\* handler is not created in the run its click starts, because that handler's
\* own button reads False in it: the page just runs from top to bottom.
RestartSession ==
    /\ pc \in {"open", "run", "start", "submit", "reset", "restart"}
    /\ RestartButtonShown
    /\ IF ConfigStops
       THEN /\ session_state' = ClearedSession
            /\ notice' = <<>>
            /\ UNCHANGED <<session_validation, repair_result>>
       ELSE \E top \in {PageTop(session_state)} :
              /\ session_state' = top.state
              /\ session_validation' = top.validation
              /\ repair_result' = IF top.repaired THEN top.repair ELSE repair_result
              /\ notice' = top.notice
    /\ remote_calls' = <<>>
    /\ last_question' = <<>>
    /\ pc' = "restart"
    /\ UNCHANGED turns
    /\ UNCHANGED <<callVars, parseVars, configVars, recorded>>

SessionNext ==
    \/ RunPage
    \/ StartPractice
    \/ SubmitAnswer
    \/ ResetInterview
    \/ RestartSession

SessionSpec == SessionInit /\ [][SessionNext]_allVars

----------------------------------------------------------------------------
(* ConfigValidator.validate_user_settings                                   *)
(*                                                                         *)
(* A setting is a tagged value as in the session record; type "none" is a   *)
(* key that is missing or holds None.  temperature, the penalties and top_p *)
(* are counted in tenths (17 is 1.7), wordcount in words.                   *)

valid_difficulty_levels == {"Easy", "Medium", "Hard"}

valid_temperature_range == <<0, 10>>

valid_penalty_range == <<0, 20>>

valid_top_p_range == <<0, 10>>

valid_word_count_range == <<50, 500>>

NoneValue == [type |-> "none", value |-> 0]

\* a string setting
TextValue(text) == [type |-> "str", value |-> text]

\* the findings of one numeric setting and the value corrected_settings
\* holds: wrong type is an error; a value outside range is a warning and,
\* where the code corrects, becomes the bound it lies beyond
NumericSetting(value, types, range, error, warning, corrects) ==
    IF value.type = "none"
    THEN [errors |-> <<>>, warnings |-> <<>>, corrected |-> value]
    ELSE IF value.type \notin types
    THEN [errors |-> <<error>>, warnings |-> <<>>, corrected |-> value]
    ELSE IF ~( range[1] <= value.value /\ value.value <= range[2] )
    THEN [errors |-> <<>>,
          warnings |-> <<warning>>,
          corrected |-> IF ~corrects THEN value
                        ELSE IF value.value < range[1] THEN FloatValue(range[1])
                        ELSE FloatValue(range[2])]
    ELSE [errors |-> <<>>, warnings |-> <<>>, corrected |-> value]

\* validate_user_settings(settings)
ValidateUserSettings(settings) ==
    LET difficulty == settings.difficulty
        difficulty_errors ==
            IF /\ difficulty.type # "none"
               /\ difficulty.value # ""
               /\ difficulty.value \notin valid_difficulty_levels
            THEN << <<"Invalid difficulty level: ", difficulty.value>> >>
            ELSE <<>>
        temperature ==
            NumericSetting(settings.temperature, {"int", "float"},
                           valid_temperature_range,
                           <<"Temperature must be a number">>,
                           <<"Temperature ", settings.temperature,
                             " is outside recommended range ", valid_temperature_range>>,
                           TRUE)
        penalty(penalty_name) ==
            NumericSetting(settings[penalty_name], {"int", "float"},
                           valid_penalty_range,
                           <<penalty_name, " must be a number">>,
                           <<penalty_name, " ", settings[penalty_name],
                             " is outside valid range ", valid_penalty_range>>,
                           TRUE)
        frequency_penalty == penalty("frequency_penalty")
        presence_penalty == penalty("presence_penalty")
        top_p ==
            NumericSetting(settings.top_p, {"int", "float"}, valid_top_p_range,
                           <<"Top P must be a number">>,
                           <<"Top P ", settings.top_p,
                             " is outside valid range ", valid_top_p_range>>,
                           TRUE)
        word_count ==
            NumericSetting(settings.wordcount, {"int"}, valid_word_count_range,
                           <<"Word count must be an integer">>,
                           <<"Word count ", settings.wordcount,
                             " is outside recommended range ", valid_word_count_range>>,
                           FALSE)
    IN  [is_valid |-> TRUE,
         errors |-> difficulty_errors \o temperature.errors
                      \o frequency_penalty.errors \o presence_penalty.errors
                      \o top_p.errors \o word_count.errors,
         warnings |-> temperature.warnings \o frequency_penalty.warnings
                        \o presence_penalty.warnings \o top_p.warnings
                        \o word_count.warnings,
         corrected_settings |->
            [difficulty |-> difficulty,
             temperature |-> temperature.corrected,
             frequency_penalty |-> frequency_penalty.corrected,
             presence_penalty |-> presence_penalty.corrected,
             top_p |-> top_p.corrected,
             wordcount |-> word_count.corrected]]

\* the settings dictionaries validate_user_settings is called with
SettingsInputs ==
    [difficulty : {NoneValue, TextValue("Medium"), TextValue("Expert"), TextValue("")},
     temperature : {NoneValue, FloatValue(5), FloatValue(17), FloatValue(0 - 3),
                    IntValue(20), StrValue},
     frequency_penalty : {FloatValue(10), FloatValue(25), StrValue},
     presence_penalty : {NoneValue, FloatValue(20), FloatValue(0 - 5)},
     top_p : {FloatValue(1), FloatValue(15), StrValue},
     wordcount : {IntValue(100), IntValue(600), IntValue(20), FloatValue(100), StrValue}]

SettingsInit ==
    /\ CallIdle
    /\ ParseIdle
    /\ StateIdle
    /\ api_key_configured = TRUE
    /\ user_settings \in SettingsInputs
    /\ settings_validation = "-"
    /\ recorded = <<>>
    /\ pc = "settings"

\* config_validator.validate_user_settings(user_settings)
ValidateUserSettingsCall ==
    /\ pc = "settings"
    /\ settings_validation' = ValidateUserSettings(user_settings)
    /\ pc' = "settings_validated"
    /\ UNCHANGED <<api_key_configured, user_settings, recorded>>
    /\ UNCHANGED <<callVars, parseVars, stateVars>>

SettingsNext == ValidateUserSettingsCall

SettingsSpec == SettingsInit /\ [][SettingsNext]_allVars

----------------------------------------------------------------------------
(* update_token_usage() called again and again on one session *)

MaxRecorded == 3

\* the usage objects a remote collaborator may attach to a response; neither
\* the sign of a field nor total_tokens = prompt + completion is guaranteed
ReportedUsages ==
    { [prompt_tokens |-> p, completion_tokens |-> c, total_tokens |-> t] :
        p \in {0 - 1, 0, 2}, c \in {0 - 1, 0, 2}, t \in {0 - 2, 1, 4} }

UsageInit ==
    /\ ParseIdle
    /\ StateIdle
    /\ ConfigIdle
    /\ CallIdle
    /\ pc = "usage"

\* update_token_usage(usage)
UpdateTokenUsageCall ==
    /\ pc = "usage"
    /\ Len(recorded) < MaxRecorded
    /\ \E usage \in ReportedUsages :
         /\ token_usage' = UpdateTokenUsage(token_usage, usage)
         /\ recorded' = Append(recorded, usage)
    /\ UNCHANGED <<pc, logged_calls, rate_status>>
    /\ UNCHANGED <<func, operation, attempt, trace, outcome, app_log,
                   displayed, throttle_sleeps, result>>
    /\ UNCHANGED <<parseVars, stateVars, configVars>>

UsageNext == UpdateTokenUsageCall

UsageSpec == UsageInit /\ [][UsageNext]_allVars

----------------------------------------------------------------------------
(* Claims about the parsing of a completion (ParseSpec) *)

Validated == pc \in {"validated", "evaluated"}

\* a response with content, validated as the given kind
ValidatedAs(kind) ==
    /\ Validated
    /\ expected_type = kind
    /\ api_response.has_choices
    /\ ~api_response.content_is_none
    /\ api_response.content # <<>>

FieldSet == { expected_evaluation_fields[k] : k \in 1..Len(expected_evaluation_fields) }

\* the digits the text gives for a metric, as "<Name>: <digit>" or "<Name>:<digit>"
GivenDigits(text, field) ==
    LET at == { k \in 1..Len(text) - 2 : text[k] = field /\ text[k + 1] = ":" }
    IN  { text[k + 2] : k \in { j \in at : text[j + 2] \in Digits } }
          \cup { text[k + 3] : k \in { j \in at : /\ j + 3 <= Len(text)
                                                   /\ text[j + 2] = " "
                                                   /\ text[j + 3] \in Digits } }

InRangeDigits == {"1", "2", "3", "4", "5"}

HasFeedbackMarker(text) ==
    \E k \in 1..Len(text) - 1 : text[k] = "Feedback" /\ text[k + 1] = ":"

\* the text after the first "Feedback:" marker, trimmed
TrailingFeedback(text) ==
    LET i == Min({ k \in 1..Len(text) - 1 :
                     text[k] = "Feedback" /\ text[k + 1] = ":" })
    IN  Strip(SubSeq(text, i + 2, Len(text)))

AbsentMetrics(text) == { f \in FieldSet : GivenDigits(text, f) = {} }

\* the warnings that report missing metrics
MissingMetricWarnings(warnings) ==
    SelectSeq(warnings, LAMBDA w : w[1] = "Missing evaluation fields: ")

\* C14 as stated: when the text lacks the pattern of one or more metrics,
\* every absent metric is in the parsed scores with value 0, there is one
\* warning per absent metric, is_valid is true, and the scores returned by
\* evaluate_answer hold 0 for every absent metric as well.
C14_MissingMetricsZero ==
    ( /\ ValidatedAs("evaluation")
      /\ AbsentMetrics(api_response.content) # {} )
    => LET scores == validation_result.cleaned_response.scores
           absent == AbsentMetrics(api_response.content)
       IN  /\ validation_result.is_valid
           /\ \A f \in absent : f \in DOMAIN scores /\ scores[f] = 0
           /\ Len(MissingMetricWarnings(validation_result.warnings))
                 = Cardinality(absent)
           /\ pc = "evaluated" =>
                 \A f \in absent : /\ f \in DOMAIN evaluation.scores
                                    /\ evaluation.scores[f] = 0

\* C15 as stated: a metric whose only digit in the text is outside 1..5 is
\* in the parsed scores with that digit as its value, and a warning about
\* the metric is attached.
C15_OutOfRangeKept ==
    ValidatedAs("evaluation")
    => \A f \in FieldSet : \A d \in Digits \ InRangeDigits :
         GivenDigits(api_response.content, f) = {d}
         => LET scores == validation_result.cleaned_response.scores IN
            /\ f \in DOMAIN scores
            /\ scores[f] = DigitValue(d)
            /\ \E k \in 1..Len(validation_result.warnings) :
                  /\ validation_result.warnings[k][1] = "Score for "
                  /\ validation_result.warnings[k][2] = f

\* the response carries no payload: no choices, or content None or ""
EmptyPayload == ~api_response.has_choices \/ IsEmptyContent(api_response)

\* C16 as stated: for the kinds question, evaluation, mood_analysis and
\* ideal_answer, a response with non-empty content is valid and has a
\* cleaned response; a result is invalid only for an empty payload.
C16_OnlyEmptyPayloadInvalid ==
    ( /\ Validated
      /\ expected_type \in {"question", "evaluation", "mood_analysis", "ideal_answer"} )
    => /\ ~EmptyPayload => /\ validation_result.is_valid
                           /\ validation_result.cleaned_response.kind # "None"
       /\ ~validation_result.is_valid => EmptyPayload

HasLengthWarning ==
    \E k \in 1..Len(validation_result.warnings) :
       validation_result.warnings[k] = <<"Response is very long">>

\* C17 as stated: a generic response shorter than 5 characters is invalid
\* with an error; one of 5 to 5000 characters is valid without a length
\* warning; a longer one is valid with a warning; an accepted response is
\* cleaned to the trimmed content.
C17_GenericLengthBounds ==
    ValidatedAs("generic")
    => LET n == TextLen(api_response.content) IN
       /\ n < min_response_length =>
             ~validation_result.is_valid /\ validation_result.errors # <<>>
       /\ n >= min_response_length =>
             /\ validation_result.is_valid
             /\ HasLengthWarning <=> n > max_response_length
             /\ validation_result.cleaned_response.kind = "text"
             /\ validation_result.cleaned_response.text = Strip(api_response.content)

\* the content is None, "" or made of whitespace only
BlankContent ==
    \/ IsEmptyContent(api_response)
    \/ \A k \in 1..Len(api_response.content) : api_response.content[k] \in Whitespace

\* C18: a generic response whose content is empty or whitespace only, of
\* any length, is invalid and has at least one error.
C18_BlankGenericInvalid ==
    ( /\ Validated
      /\ expected_type = "generic"
      /\ api_response.has_choices
      /\ BlankContent )
    => /\ ~validation_result.is_valid
       /\ Len(validation_result.errors) >= 1

\* five blanks, long enough to pass the length check, were validated
C18_Witness ==
    /\ ValidatedAs("generic")
    /\ api_response.content = <<" ", " ", " ", " ", " ">>
    /\ TextLen(api_response.content) >= min_response_length
    /\ ~validation_result.is_valid
    /\ validation_result.errors # <<>>

\* the position of the first line break of a text, 0 when it has one line
FirstBreak(text) ==
    IF \E k \in 1..Len(text) : text[k] = "\n"
    THEN Min({ k \in 1..Len(text) : text[k] = "\n" })
    ELSE 0

\* C19: for a mood response with content, taking the lines of the content
\* without its surrounding whitespace, the label is the first line trimmed
\* and the explanation is the rest (empty for one line); whatever the first
\* line lacks, the result is valid and has no error, and a first line
\* without a symbol or without a mood word leaves a warning.
C19_MoodLabelAndExplanation ==
    ValidatedAs("mood_analysis")
    => LET text == Strip(api_response.content)
           n == FirstBreak(text)
           first == IF n = 0 THEN text ELSE SubSeq(text, 1, n - 1)
           rest == IF n = 0 THEN <<>> ELSE SubSeq(text, n + 1, Len(text))
           c == validation_result.cleaned_response
       IN  /\ c.kind = "mood"
           /\ c.mood_label = Strip(first)
           /\ c.explanation = rest
           /\ validation_result.is_valid
           /\ validation_result.errors = <<>>
           /\ ( \/ ~\E k \in 1..Len(first) : first[k] \in EmojiTokens
                \/ ~\E k \in 1..Len(first) : first[k] \in expected_moods )
              => validation_result.warnings # <<>>

\* two lines, the first with a word that is no mood word, no symbol and a
\* trailing blank
C19_Witness ==
    /\ ValidatedAs("mood_analysis")
    /\ api_response.content = <<"Happy", " ", "\n", "why">>
    /\ validation_result.cleaned_response.mood_label = <<"Happy">>
    /\ validation_result.cleaned_response.explanation = <<"why">>
    /\ validation_result.is_valid
    /\ Len(validation_result.warnings) = 2

----------------------------------------------------------------------------
(* Claims about the validation of a session record (GuardSpec) *)

\* the number of hard errors the claim expects for one conversation entry
Defects(message) ==
    IF ~message.is_dict THEN 1
    ELSE ( IF ~message.has_role THEN 1 ELSE 0 )
         + ( IF ~message.has_content \/ ~message.content_is_str THEN 1 ELSE 0 )

\* the findings of a list that name entry number i
FindingsAbout(findings, i) ==
    SelectSeq(findings, LAMBDA w : w[1] = "Message " /\ w[2] = IntText(i))

\* C20: when the conversation is a list, the report of validate_session_state
\* has, for every entry, one error per defect of the entry (not
\* record-shaped, no role, no content, content that is not text) and no
\* other error about the conversation; an entry with a role outside system,
\* user, assistant has exactly one warning and no error for its role.
C20_ConversationErrors ==
    ( /\ pc = "session_validated"
      /\ "messages" \in session_state.present
      /\ session_state.messages.is_list )
    => LET items == session_state.messages.items IN
       /\ \A k \in 1..Len(items) :
            /\ Len(FindingsAbout(session_validation.errors, k - 1)) = Defects(items[k])
            /\ Len(FindingsAbout(session_validation.warnings, k - 1))
                 = IF /\ items[k].is_dict /\ items[k].has_role
                      /\ items[k].role \notin ExpectedRoles
                   THEN 1 ELSE 0
       /\ \A n \in 1..Len(session_validation.errors) :
            \/ \E k \in 1..Len(items) :
                  /\ session_validation.errors[n][1] = "Message "
                  /\ session_validation.errors[n][2] = IntText(k - 1)
            \/ session_validation.errors[n] = <<"Token usage should be a dictionary">>

\* a list of a non-dictionary and a well-formed entry with an unexpected role
C20_Witness ==
    /\ pc = "session_validated"
    /\ "messages" \in session_state.present
    /\ session_state.messages =
         MessageList(<<NotADictionary, Message("moderator", <<"Hi">>)>>)
    /\ FindingsAbout(session_validation.errors, 0)
         = << <<"Message ", "0", " is not a dictionary">> >>
    /\ FindingsAbout(session_validation.errors, 1) = <<>>
    /\ Len(FindingsAbout(session_validation.warnings, 1)) = 1

\* the elements of a sequence
Range(seq) == { seq[k] : k \in 1..Len(seq) }

\* the report lists what the record lacks and a query_count that is not a
\* non-negative integer, each with a warning and without an error
C21_FieldsReported ==
    pc = "session_validated"
    => /\ \A k \in 1..Len(required_fields) :
            LET f == required_fields[k] IN
            /\ f \in Range(session_validation.missing_fields)
                 <=> f \notin session_state.present
            /\ <<"Missing required session field: ", f>>
                 \in Range(session_validation.warnings)
                 <=> f \notin session_state.present
       /\ LET bad_count ==
                 /\ "query_count" \in session_state.present
                 /\ ~( /\ session_state.query_count.type = "int"
                       /\ session_state.query_count.value >= 0 )
          IN  /\ "query_count" \in Range(session_validation.corrupted_fields)
                   <=> bad_count
              /\ <<"Query count is invalid">> \in Range(session_validation.warnings)
                   <=> bad_count
       /\ \A n \in 1..Len(session_validation.errors) :
            \/ session_validation.errors[n][1] \in {"Message ", "Messages should be a list"}
            \/ session_validation.errors[n] = <<"Token usage should be a dictionary">>

\* a call of validate_session_state leaves the session record as it was
C21_RecordUntouched ==
    pc' = "session_validated" => session_state' = session_state

\* C21: validate_session_state lists every missing required field (messages,
\* interview_started, job_role) in missing_fields with a warning, lists a
\* query_count that is not a non-negative integer in corrupted_fields with a
\* warning, adds no error for either, and never modifies the session record.
C21_MissingAndCorrupted ==
    /\ []C21_FieldsReported
    /\ [][C21_RecordUntouched]_allVars

\* a record without messages and job_role whose query_count is -5
C21_Witness ==
    /\ pc = "session_validated"
    /\ session_state.present = {"interview_started", "query_count", "token_usage"}
    /\ session_state.query_count = IntValue(0 - 5)
    /\ session_validation.missing_fields = <<"messages", "job_role">>
    /\ session_validation.corrupted_fields = <<"query_count">>
    /\ session_validation.errors = <<>>
    /\ Len(session_validation.warnings) = 3

\* the value a session record holds for a field
FieldValue(ss, f) ==
    CASE f = "messages" -> ss.messages
      [] f = "interview_started" -> ss.interview_started
      [] f = "job_role" -> ss.job_role
      [] f = "query_count" -> ss.query_count
      [] f = "token_usage" -> ss.token_usage

\* the fields in which two session records differ
FieldsChanged(before, after) ==
    { f \in SessionFields :
        \/ (f \in before.present) # (f \in after.present)
        \/ FieldValue(before, f) # FieldValue(after, f) }

\* query_count is there and is not a non-negative integer
CorruptedCount(ss) ==
    /\ "query_count" \in ss.present
    /\ ~( ss.query_count.type = "int" /\ ss.query_count.value >= 0 )

\* C22: a call of repair_session_state gives every missing required field
\* its default (messages the empty list, interview_started false, job_role
\* the empty text), sets a corrupted query_count to 0, logs exactly one
\* action per field it changed, and reports repaired exactly when the log is
\* not empty; a record that lacks only messages and has query_count -5 ends
\* with an empty conversation, query_count 0 and two logged actions.
C22_RepairOutcome ==
    [][ pc' = "session_repaired"
        => /\ "messages" \notin session_state.present
                => /\ "messages" \in session_state'.present
                   /\ session_state'.messages = MessageList(<<>>)
           /\ "interview_started" \notin session_state.present
                => /\ "interview_started" \in session_state'.present
                   /\ session_state'.interview_started = FALSE
           /\ "job_role" \notin session_state.present
                => /\ "job_role" \in session_state'.present
                   /\ session_state'.job_role = <<>>
           /\ CorruptedCount(session_state)
                => session_state'.query_count = IntValue(0)
           /\ Len(repair_result'.actions_taken)
                = Cardinality(FieldsChanged(session_state, session_state'))
           /\ repair_result'.repaired <=> repair_result'.actions_taken # <<>>
           /\ ( /\ session_state.present = SessionFields \ {"messages"}
                /\ session_state.query_count = IntValue(0 - 5)
                /\ session_state.token_usage = DefaultTokenUsage )
                => /\ session_state'.messages = MessageList(<<>>)
                   /\ session_state'.query_count = IntValue(0)
                   /\ Len(repair_result'.actions_taken) = 2
      ]_allVars

\* the repaired record of the example: only messages was missing and
\* query_count was corrupted
C22_Witness ==
    /\ pc = "session_repaired"
    /\ repair_result = [repaired |-> TRUE,
                        actions_taken |-> <<"Initialized empty messages list",
                                            "Reset query_count to 0">>]
    /\ session_state.present = SessionFields
    /\ session_state.messages = MessageList(<<>>)
    /\ session_state.query_count = IntValue(0)

\* a field of the record is there and holds a value of the expected shape
WellFormed(ss, f) ==
    /\ f \in ss.present
    /\ CASE f = "messages" ->
               /\ ss.messages.is_list
               /\ \A k \in 1..Len(ss.messages.items) : Defects(ss.messages.items[k]) = 0
         [] f = "query_count" ->
               ss.query_count.type = "int" /\ ss.query_count.value >= 0
         [] f = "token_usage" ->
               /\ ss.token_usage.is_dict
               /\ \A u \in {"prompt_tokens", "completion_tokens", "total_tokens"} :
                     /\ ss.token_usage.counters[u].type = "int"
                     /\ ss.token_usage.counters[u].value >= 0
               /\ ss.token_usage.counters.estimated_cost.type \in {"int", "float"}
               /\ ss.token_usage.counters.estimated_cost.value >= 0
         [] OTHER -> TRUE

\* a repair that follows a repair does nothing
C23_SecondRepair ==
    ( pc = "session_repaired" /\ pc' = "session_repaired" )
    => /\ repair_result' = [repaired |-> FALSE, actions_taken |-> <<>>]
       /\ session_state' = session_state

\* a repair keeps every field that was present and well-formed
C23_Additive ==
    pc' = "session_repaired"
    => \A f \in SessionFields :
         WellFormed(session_state, f)
         => /\ f \in session_state'.present
            /\ FieldValue(session_state', f) = FieldValue(session_state, f)

\* C23: repair_session_state is idempotent and additive: a second repair
\* right after a repair takes no action (repaired false, empty log) and
\* leaves the record unchanged, and no repair changes a field that was
\* already present and well-formed.
C23_IdempotentAdditive == [][C23_SecondRepair /\ C23_Additive]_allVars

\* a repair that found nothing to do on a record whose interview_started and
\* job_role hold the defaults an earlier repair gave them
C23_Witness ==
    /\ pc = "session_repaired"
    /\ repair_result = [repaired |-> FALSE, actions_taken |-> <<>>]
    /\ session_state.present = SessionFields
    /\ session_state.interview_started = FALSE
    /\ session_state.job_role = <<>>
    /\ session_state.query_count = IntValue(0)
    /\ session_state.messages = MessageList(<<Message("user", <<"Hi">>)>>)

\* a warning of _validate_token_usage
UsageWarning(w) ==
    w[1] \in {"Token usage missing field: ", "Invalid estimated cost: ", "Invalid "}

\* after a repair the usage block has its four well-typed, non-negative fields
C24_UsageWellFormed ==
    pc = "session_repaired" => WellFormed(session_state, "token_usage")

\* a validation that follows a repair reports no usage warning
C24_NoUsageWarning ==
    ( pc = "session_repaired" /\ pc' = "session_validated" )
    => \A n \in 1..Len(session_validation'.warnings) :
         ~UsageWarning(session_validation'.warnings[n])

\* C24 as stated: repair resets the usage block whenever the counters are
\* missing or malformed (a sub-field lacking, negative or of the wrong type
\* included), so that after a repair token_usage has its four fields,
\* non-negative and of the right type, and validation reports no usage
\* warning.
C24_UsageResetByRepair ==
    /\ []C24_UsageWellFormed
    /\ [][C24_NoUsageWarning]_allVars

----------------------------------------------------------------------------
(* Claims about the interview page (SessionSpec) *)

Conversation == session_state.messages.items

\* the run that has just happened started an interview
JustStarted == pc = "start" /\ session_state.interview_started

C11_StartsAtZero == JustStarted => session_state.query_count = IntValue(0)

\* the step in which the fifth answer is processed
C11_FifthAnswer ==
    ( turns = 4 /\ turns' = 5 ) => session_state'.query_count = IntValue(5)

\* a Submit after five processed answers
C11_LaterSubmitBlocked ==
    ( turns = 5 /\ pc' = "submit" )
    => /\ notice' = <<UsageLimitNotice>>
       /\ session_state'.messages = session_state.messages
       /\ remote_calls' = <<>>

\* C11: query_count is 0 when an interview has just been started; it is 5
\* right after the fifth processed answer; every Submit after that, in the
\* same interview, shows the usage-limit notice, leaves the conversation as
\* it is and issues no remote call.
C11_UsageLimit ==
    /\ []C11_StartsAtZero
    /\ [][C11_FifthAnswer /\ C11_LaterSubmitBlocked]_allVars

\* five answers were processed and a sixth Submit has been blocked
C11_Witness ==
    /\ pc = "submit"
    /\ turns = 5
    /\ Len(Conversation) = 12
    /\ notice = <<UsageLimitNotice>>
    /\ remote_calls = <<>>

\* C12 as stated: whenever query_count is set, it is an integer from 0 to 5.
C12_QueryCountCapped ==
    "query_count" \in session_state.present
    => /\ session_state.query_count.type = "int"
       /\ 0 <= session_state.query_count.value
       /\ session_state.query_count.value <= 5

----------------------------------------------------------------------------
(* Claims about the usage counters (UsageSpec) *)

RECURSIVE SumOf(_, _, _)
\* the sum of one field over the first n recorded usages
SumOf(usages, field, n) ==
    IF n = 0 THEN 0 ELSE usages[n][field] + SumOf(usages, field, n - 1)

\* C25: starting from zeroed counters, after any sequence of
\* update_token_usage calls prompt_tokens, completion_tokens and total_tokens
\* each equal the sum of that field over all recorded usages, negative
\* values included, and estimated_cost is the prompt rate times the
\* cumulative prompt_tokens plus the completion rate times the cumulative
\* completion_tokens (0.01 and 0.03 dollar per 1000 tokens, that is 1 and 3
\* units of 10^-5 dollar per token).
C25_UsageAccumulates ==
    pc = "usage"
    => /\ token_usage.prompt_tokens = SumOf(recorded, "prompt_tokens", Len(recorded))
       /\ token_usage.completion_tokens
            = SumOf(recorded, "completion_tokens", Len(recorded))
       /\ token_usage.total_tokens = SumOf(recorded, "total_tokens", Len(recorded))
       /\ token_usage.estimated_cost
            = 1 * token_usage.prompt_tokens + 3 * token_usage.completion_tokens

\* three usages were recorded, one of them negative, and a counter is below zero
C25_Witness ==
    /\ pc = "usage"
    /\ Len(recorded) = 3
    /\ recorded[2].prompt_tokens < 0
    /\ recorded[1].prompt_tokens = 2
    /\ token_usage.prompt_tokens = 0
    /\ token_usage.total_tokens < 0

----------------------------------------------------------------------------
(* Claims about the usage counters of a session (SessionSpec) *)

\* a usage counter of the session; a session without token_usage has used
\* nothing
UsageCounter(ss, u) ==
    IF "token_usage" \in ss.present THEN ss.token_usage.counters[u].value ELSE 0

----------------------------------------------------------------------------
(* Claims about the validation of the user settings (SettingsSpec) *)

NumericSettings ==
    {"temperature", "frequency_penalty", "presence_penalty", "top_p", "wordcount"}

\* the closed interval of a numeric setting, in the unit of the setting
Interval(setting) ==
    CASE setting = "temperature" -> <<0, 10>>
      [] setting = "frequency_penalty" -> <<0, 20>>
      [] setting = "presence_penalty" -> <<0, 20>>
      [] setting = "top_p" -> <<0, 10>>
      [] setting = "wordcount" -> <<50, 500>>

\* the value has the type the setting asks for
CorrectlyTyped(setting, value) ==
    IF setting = "wordcount" THEN value.type = "int"
    ELSE value.type \in {"int", "float"}

InsideInterval(setting, value) ==
    Interval(setting)[1] <= value.value /\ value.value <= Interval(setting)[2]

\* the bound of the interval nearest to a value outside it
NearestBound(setting, value) ==
    IF value.value < Interval(setting)[1] THEN Interval(setting)[1]
    ELSE Interval(setting)[2]

\* the findings of a list that are about one setting
AboutSetting(findings, setting) ==
    LET labels ==
          CASE setting = "temperature" -> {"Temperature ", "Temperature must be a number"}
            [] setting = "top_p" -> {"Top P ", "Top P must be a number"}
            [] setting = "wordcount" -> {"Word count ", "Word count must be an integer"}
            [] setting = "difficulty" -> {"Invalid difficulty level: "}
            [] OTHER -> {setting}
    IN  SelectSeq(findings, LAMBDA w : w[1] \in labels)

\* C27 as stated: a correctly typed numeric setting outside its interval
\* (temperature [0, 1], the penalties [0, 2], top_p [0, 1], wordcount
\* [50, 500]) gets a warning and the corrected settings hold the nearest
\* bound, so every correctly typed numeric value of the corrected settings
\* lies inside its interval.
C27_OutOfRangeClamped ==
    pc = "settings_validated"
    => \A setting \in NumericSettings :
         LET given == user_settings[setting]
             corrected == settings_validation.corrected_settings[setting]
         IN  /\ ( CorrectlyTyped(setting, given) /\ ~InsideInterval(setting, given) )
                  => /\ Len(AboutSetting(settings_validation.warnings, setting)) = 1
                     /\ corrected.value = NearestBound(setting, given)
             /\ CorrectlyTyped(setting, corrected) => InsideInterval(setting, corrected)

\* a wrongly typed numeric setting and an unknown difficulty are errors
\* without a warning, and are kept as given
C28_ErrorsReported ==
    pc = "settings_validated"
    => /\ \A setting \in NumericSettings :
            LET given == user_settings[setting] IN
            ( given.type # "none" /\ ~CorrectlyTyped(setting, given) )
            => /\ Len(AboutSetting(settings_validation.errors, setting)) = 1
               /\ AboutSetting(settings_validation.warnings, setting) = <<>>
               /\ settings_validation.corrected_settings[setting] = given
       /\ ( /\ user_settings.difficulty.type # "none"
            /\ user_settings.difficulty.value \notin {"Easy", "Medium", "Hard"} )
          => /\ Len(AboutSetting(settings_validation.errors, "difficulty")) = 1
             /\ AboutSetting(settings_validation.warnings, "difficulty") = <<>>
             /\ settings_validation.corrected_settings.difficulty
                  = user_settings.difficulty

\* C28 as stated: a numeric setting of the wrong type and a difficulty
\* outside Easy, Medium, Hard each add a hard error and no warning for that
\* setting, the corrected settings keep the given value, and
\* validate_user_settings never modifies the settings it is given.
C28_HardErrors ==
    /\ []C28_ErrorsReported
    /\ [][user_settings' = user_settings]_allVars

----------------------------------------------------------------------------
(* Claims about the session record of the page (SessionSpec) *)

\* a conversation entry with a role and text content
TextMessage(message) ==
    /\ message.is_dict
    /\ message.has_role
    /\ message.has_content
    /\ message.content_is_str

\* C29: in every reachable state of the session, whatever sequence of
\* Start Practice, Submit Answer, Reset Interview and repairs led to it, a
\* non-empty conversation begins with a message of role system, and every
\* later message has role user or assistant and text content.
C29_ConversationShape ==
    /\ "messages" \in session_state.present => session_state.messages.is_list
    /\ Conversation # <<>>
         => /\ TextMessage(Conversation[1])
            /\ Conversation[1].role = "system"
            /\ \A k \in 2..Len(Conversation) :
                  /\ TextMessage(Conversation[k])
                  /\ Conversation[k].role \in {"user", "assistant"}

\* an interview with the system prompt, the first question and two turns,
\* the second of which ended with the apology of a failed call
C29_Witness ==
    /\ pc = "submit"
    /\ Len(Conversation) = 6
    /\ Conversation[1].role = "system"
    /\ Conversation[2].role = "user"
    /\ Conversation[5].role = "user"
    /\ Conversation[6] = Message("assistant", ApologyText)

\* C30 as stated: right after Reset Interview, from any started session, the
\* record is the one of a newly created session: the conversation is empty,
\* query_count is 0, the started flag is false and the usage counters are
\* all zero.
C30_ResetGivesFreshRecord ==
    pc = "reset"
    => /\ Conversation = <<>>
       /\ session_state.query_count = IntValue(0)
       /\ ~session_state.interview_started
       /\ \A u \in Range(UsageFields) : UsageCounter(session_state, u) = 0

----------------------------------------------------------------------------
(* Claims about the configuration check of the page (SessionSpec) *)

\* C31: without an API key the configuration validation reports is_valid
\* false with an error, every run stops at the check, the session never
\* becomes started and no remote call is ever issued.
C31_MissingKeyIsFatal ==
    ~api_key_configured
    => /\ ~ValidateAppConfig(api_key_configured).is_valid
       /\ ValidateAppConfig(api_key_configured).errors # <<>>
       /\ session_state.present = {}
       /\ ~session_state.interview_started
       /\ remote_calls = <<>>
       /\ turns = 0

\* the page has run again, and Restart Session was pressed, without a key
C31_Witness ==
    /\ ~api_key_configured
    /\ pc = "restart"
    /\ session_state = ClearedSession

----------------------------------------------------------------------------
(* Claims about the rate-limit pre-check of get_ai_response (FairSpec) *)

\* once the pre-check has run: the status is warning exactly when more than
\* 150 calls are logged in the window and ok otherwise, with the count, or
\* error when the logs could not be read; only a warning pauses the call
C32_StatusFromCount ==
    pc # "start"
    => /\ IF logged_calls.readable
          THEN /\ rate_status.calls = logged_calls.recent_calls
               /\ rate_status.status = "warning" <=> logged_calls.recent_calls > 150
               /\ rate_status.status = "ok" <=> logged_calls.recent_calls <= 150
          ELSE rate_status.status = "error"
       /\ throttle_sleeps # <<>> <=> rate_status.status = "warning"

\* C32: check_rate_limits gives status warning exactly when the calls logged
\* in the window exceed 150 and ok otherwise, with the count; whatever the
\* status (ok, warning, error), get_ai_response goes on to issue the remote
\* call: a warning delays the call and never blocks it.
C32_AdvisoryOnly ==
    /\ []C32_StatusFromCount
    /\ <>(Invocations # <<>>)

\* 151 logged calls: a warning, two pauses, and the call was made
C32_Witness ==
    /\ rate_status = [status |-> "warning", calls |-> 151]
    /\ throttle_sleeps = <<RateLimitPause, ApproachingLimitPause>>
    /\ Invocations # <<>>
    /\ pc = "done"

----------------------------------------------------------------------------
(* Claims about what evaluate_answer returns (ParseSpec) *)

\* C33 as stated: for every outcome of its remote call (a well-formed
\* evaluation, one with missing or out-of-range metrics, a terminal remote
\* error) evaluate_answer returns scores with all five metric keys, each an
\* integer from 0 to 5, and a non-empty feedback text.
C33_FiveScoresAlways ==
    pc \in {"evaluated", "evaluation_failed"}
    => /\ DOMAIN evaluation.scores = FieldSet
       /\ \A f \in DOMAIN evaluation.scores : evaluation.scores[f] \in 0..5
       /\ evaluation.feedback # <<>>

----------------------------------------------------------------------------
(* Claims about the turns of an interview (SessionSpec) *)

\* C34 as stated: in every state of a started session query_count is the
\* number of answers processed into a turn since Start Practice; a Submit
\* with an empty or whitespace-only answer consumes none of the five turns.
C34_CounterCountsTurns ==
    session_state.interview_started => session_state.query_count = IntValue(turns)

\* the step has processed an answer into a turn
TurnProcessed == turns' = turns + 1

\* C35: Start Practice sets the conversation to exactly the system prompt
\* and the initial question; a processed turn appends exactly two messages,
\* the user's answer then the assistant's reply, and no step of a started
\* interview removes or rewrites a message, so that after n processed turns
\* the conversation has 2 + 2n messages; the question evaluated in a turn,
\* the third message from the end after the append, exists and is the last
\* question put to the user: the initial question in the first turn, the
\* previous assistant reply in the later ones.
C35_ConversationGrowth ==
    /\ [](JustStarted =>
            /\ Len(Conversation) = 2
            /\ Conversation[1] =
                  Message("system", SystemPrompt(session_state.job_role))
            /\ Conversation[2].role = "user")
    /\ [](session_state.interview_started => Len(Conversation) = 2 + 2 * turns)
    /\ [][ /\ (session_state.interview_started /\ session_state'.interview_started)
               => /\ Len(Conversation') >= Len(Conversation)
                  /\ SubSeq(Conversation', 1, Len(Conversation)) = Conversation
           /\ TurnProcessed
               => /\ Len(Conversation') = Len(Conversation) + 2
                  /\ Conversation'[Len(Conversation') - 1].role = "user"
                  /\ Conversation'[Len(Conversation')].role = "assistant"
                  /\ Len(Conversation') >= 3
                  /\ last_question' = <<Conversation[Len(Conversation)].content>>
                  /\ turns = 0 => last_question' = <<Conversation[2].content>>
                  /\ turns > 0 => Conversation[Len(Conversation)].role = "assistant"
           /\ ~TurnProcessed => last_question' = <<>> ]_allVars

\* the second turn of an interview has been processed: six messages, and
\* the question evaluated was the reply of the first turn
C35_Witness ==
    /\ pc = "submit"
    /\ turns = 2
    /\ Len(Conversation) = 6
    /\ last_question = <<Conversation[4].content>>
    /\ Conversation[4].role = "assistant"

\* C36 as stated: every assistant message stored is text generated by the
\* remote collaborator; a turn whose next-question call ended in a terminal
\* error appends no assistant message, so the local apology is never stored
\* as a reply, and issues no evaluation, mood or ideal-answer call.
C36_RepliesAreGenerated ==
    /\ \A k \in 1..Len(Conversation) :
          Conversation[k].role = "assistant"
             => Conversation[k].content # ApologyText
    /\ \/ pc # "submit"
       \/ remote_calls = <<>>
       \/ last_question = <<>>
       \/ Conversation[Len(Conversation)] # Message("assistant", ApologyText)
       \/ \A k \in 1..Len(remote_calls) : remote_calls[k] = "get_ai_response"

----------------------------------------------------------------------------
(* Claims about repair followed by validation (GuardSpec) *)

\* C37 as stated: when a validation has reported hard errors, the repair
\* that follows reports repaired = true, and the record is validated again
\* immediately afterwards, the second report has no hard errors, no missing
\* required fields and no corrupted fields.
C37_RepairRemovesTrigger ==
    [][ ( /\ pc = "session_repaired"
          /\ session_validation.errors # <<>>
          /\ repair_result.repaired
          /\ pc' = "session_validated" )
        => /\ session_validation'.errors = <<>>
           /\ session_validation'.missing_fields = <<>>
           /\ session_validation'.corrupted_fields = <<>> ]_allVars

\* C38 as stated: in every report of validate_session_state and of
\* validate_user_settings, is_valid is false whenever errors is non-empty
\* and true whenever errors is empty.
C38_ValidAgreesWithErrors ==
    /\ pc = "session_validated"
          => (session_validation.is_valid <=> session_validation.errors = <<>>)
    /\ pc = "settings_validated"
          => (settings_validation.is_valid <=> settings_validation.errors = <<>>)
====
